---------------------------- MODULE Spec2Model ----------------------------
(***************************************************************************)
(* Verification model of the rmf_core traffic core:                        *)
(*   - the waypoint reservation scheduler (rmf_traffic::reservations),     *)
(*     whose implementation is exercised by                                *)
(*     test/unit/reservation/test_ReservationSystem.cpp;                   *)
(*   - the trajectory conflict engine of                                   *)
(*     src/rmf_traffic/DetectConflict.cpp.                                 *)
(***************************************************************************)
EXTENDS Integers, Sequences, FiniteSets, TLC

(***************************************************************************)
(* Bounds of the scheduler model.                                          *)
(***************************************************************************)
\* request start times are 0..MaxTime (hours after the clock reading)
MaxTime == 1
\* finite durations are 1..MaxDuration
MaxDuration == 2
\* at most this many reservations are issued in one run
MaxReservations == 2

(***************************************************************************)
(* Bounds of the conflict-engine model.                                    *)
(***************************************************************************)
\* waypoint times are 0..MaxInstant
MaxInstant == 3
\* a trajectory has at most this many waypoints
MaxWaypoints == 3
\* the narrowphase reports a contact at a fraction n / FractionSteps
FractionSteps == 1
\* trajectories are translated in time by up to MaxShift either way
MaxShift == 1
\* the corners of the boxes of two splines are 0 .. MaxCoordinate, in units
\* of 2 mm
MaxCoordinate == 1
\* spline coefficients are -MaxCoefficient .. MaxCoefficient, in units of 2 mm
MaxCoefficient == 2
\* characteristic lengths are 0 .. MaxLength, in units of 2 mm
MaxLength == 1
\* a spline is sampled at the instants k / Samples of its parameter
Samples == 4

VARIABLES
  schedules,   \* ReservationSystem: per waypoint, its reservations by start
  next_id,     \* ReservationSystem: the id the next reservation gets
  issued,      \* history: the ids issued so far, in issue order
  last,        \* history: the last call and what it returned
  trajectory_a,      \* between: the waypoint times of trajectory_a
  trajectory_b,      \* between: the waypoint times of trajectory_b
  input_profile_a,   \* between: footprint and vicinity as passed in
  input_profile_b,
  output_conflicts,  \* between: Null, or the caller's list of conflicts
  pc,                \* between: the statement the call is at
  profile_a,         \* between: the profiles after convert_profile
  profile_b,
  range_a,           \* the trajectory a_it ranges over (sliced on hand-off)
  range_b,
  a_it,              \* index of the waypoint a_it points at, Len + 1 at end()
  b_it,
  result,            \* between: what the call returned or threw
  detected,          \* history: the conflicts found during the call, in order
  mirror,            \* a second call on related arguments, or NoMirror
  region_call,       \* internal::detect_conflicts: the state of the call
  box_call,          \* get_bounding_box, adjust_bounding_box: the state
  observed           \* history: the last step of between, or NoObservation

sched_vars == <<schedules, next_id, issued, last>>

between_vars ==
  <<trajectory_a, trajectory_b, input_profile_a, input_profile_b,
    output_conflicts, pc, profile_a, profile_b, range_a, range_b,
    a_it, b_it, result, detected, mirror>>

region_vars == <<region_call>>

box_vars == <<box_call>>

observe_vars == <<observed>>

vars == <<sched_vars, between_vars, region_vars, box_vars, observe_vars>>

(***************************************************************************)
(* Scheduler: data                                                         *)
(***************************************************************************)
wp0 == "waypoint_0"
wp1 == "waypoint_1"
Waypoints == {wp0, wp1}

\* end of an indefinite hold: later than every finite end of the model
Infinity == MaxTime + MaxDuration + 1

Times == 0 .. MaxTime
\* an optional duration: <<>> is "no duration", <<d>> a duration of d
Durations == {<<>>} \cup {<<d>> : d \in 1 .. MaxDuration}
\* ordered preference lists without repetition
PreferenceLists ==
  {<<>>} \cup {<<w>> : w \in Waypoints}
         \cup {<<w, v>> : <<w, v>> \in {p \in Waypoints \X Waypoints : p[1] # p[2]}}

None == [kind |-> "none"]
UnknownReservation == [kind |-> "UnknownReservation"]
Some(r) == [kind |-> "some", reservation |-> r]
Done == [kind |-> "done"]

\* [start, start + duration), or [start, +infinity) without a duration
EndOf(start, duration) ==
  IF duration = <<>> THEN Infinity ELSE start + duration[1]

(***************************************************************************)
(* Scheduler: admission over the ordered per-waypoint structure            *)
(***************************************************************************)
\* index of the first reservation of sched that starts at or after s
\* (Len(sched) + 1 when there is none): the successor query
RECURSIVE SuccessorFrom(_, _, _)
SuccessorFrom(sched, s, i) ==
  IF i > Len(sched) THEN i
  ELSE IF sched[i].start >= s THEN i
  ELSE SuccessorFrom(sched, s, i + 1)

Successor(sched, s) == SuccessorFrom(sched, s, 1)

\* Plausible slip: the predecessor is never looked at.
AdmissibleNoPredecessor(sched, s, e) ==
  LET i == Successor(sched, s)
  IN  i <= Len(sched) => e <= sched[i].start

\* Plausible slip: closed intervals, touching endpoints are refused.
AdmissibleClosed(sched, s, e) ==
  LET i == Successor(sched, s)
  IN  /\ i > 1 => sched[i - 1].finish < s
      /\ i <= Len(sched) => e < sched[i].start

\* Plausible slip: an indefinite hold is stored but never blocks a request.
AdmissibleIgnoringIndefinite(sched, s, e) ==
  LET i == Successor(sched, s)
  IN  /\ i > 1 => (sched[i - 1].finish <= s \/ sched[i - 1].finish = Infinity)
      /\ i <= Len(sched) => (e <= sched[i].start \/ e = Infinity)

\* [s, e) is admitted on a waypoint iff its predecessor has ended by s and
\* it ends by the start of its successor
Admissible(sched, s, e) ==
  LET i == Successor(sched, s)
  IN  /\ i > 1 => sched[i - 1].finish <= s
      /\ i <= Len(sched) => e <= sched[i].start

\* sched with r inserted at its place in start order
InsertOrdered(sched, r) ==
  LET i == Successor(sched, r.start)
  IN  SubSeq(sched, 1, i - 1) \o <<r>> \o SubSeq(sched, i, Len(sched))

\* Plausible slip: the preference list is walked from its end.
RECURSIVE ChooseLastAdmissible(_, _, _, _, _)
ChooseLastAdmissible(scheds, resources, s, e, k) ==
  LET j == Len(resources) + 1 - k
  IN  IF k > Len(resources) THEN 0
      ELSE IF Admissible(scheds[resources[j]], s, e) THEN j
      ELSE ChooseLastAdmissible(scheds, resources, s, e, k + 1)

\* index in the preference list of the waypoint that takes [s, e): the list
\* is tried in order from position k, 0 when every candidate conflicts
RECURSIVE ChooseWaypoint(_, _, _, _, _)
ChooseWaypoint(scheds, resources, s, e, k) ==
  IF k > Len(resources) THEN 0
  ELSE IF Admissible(scheds[resources[k]], s, e) THEN k
  ELSE ChooseWaypoint(scheds, resources, s, e, k + 1)

\* Plausible slip: the id counter is not advanced.
SameId(id) == id

\* the id after id
NextId(id) == id + 1

(***************************************************************************)
(* Scheduler: cancellation                                                 *)
(***************************************************************************)
\* the waypoints whose schedule holds reservation id
HoldersOf(scheds, id) ==
  {w \in Waypoints : \E i \in 1 .. Len(scheds[w]) : scheds[w][i].id = id}

\* Plausible slip: the reservation is erased together with all that follow
\* it in the schedule of its waypoint.
RECURSIVE WithoutFrom(_, _)
WithoutFrom(sched, id) ==
  IF sched = <<>> THEN <<>>
  ELSE IF Head(sched).id = id THEN <<>>
  ELSE <<Head(sched)>> \o WithoutFrom(Tail(sched), id)

\* sched without its reservation id
RECURSIVE Without(_, _)
Without(sched, id) ==
  IF sched = <<>> THEN <<>>
  ELSE IF Head(sched).id = id THEN Without(Tail(sched), id)
  ELSE <<Head(sched)>> \o Without(Tail(sched), id)

\* Plausible slip: an unknown id is accepted silently, and the lookup that
\* found nothing drops the oldest reservation of every waypoint.
CancelUnknownSilently(scheds, id) ==
  IF HoldersOf(scheds, id) = {}
  THEN [schedules |-> [w \in Waypoints |->
                         IF scheds[w] = <<>> THEN <<>> ELSE Tail(scheds[w])],
        outcome |-> Done]
  ELSE [schedules |-> [w \in Waypoints |-> Without(scheds[w], id)],
        outcome |-> Done]

\* Plausible slip: the id is forgotten but its interval stays in the schedule.
CancelKeepsInterval(scheds, id) ==
  IF HoldersOf(scheds, id) = {}
  THEN [schedules |-> scheds, outcome |-> UnknownReservation]
  ELSE [schedules |-> [w \in Waypoints |->
          [i \in 1 .. Len(scheds[w]) |->
             IF scheds[w][i].id = id
             THEN [scheds[w][i] EXCEPT !.id = -1]
             ELSE scheds[w][i]]],
        outcome |-> Done]

\* cancel_reservation(id): the schedules afterwards and what the call did
CancelResult(scheds, id) ==
  IF HoldersOf(scheds, id) = {}
  THEN [schedules |-> scheds, outcome |-> UnknownReservation]
  ELSE [schedules |-> [w \in Waypoints |-> Without(scheds[w], id)],
        outcome |-> Done]

(***************************************************************************)
(* Scheduler: state machine                                                *)
(***************************************************************************)
NoCall == [op |-> "none"]

\* a fresh ReservationSystem
NewReservationSystem ==
  /\ schedules = [w \in Waypoints |-> <<>>]
  /\ next_id = 0
  /\ issued = <<>>
  /\ last = NoCall

\* no conflict detection call is in progress
NoDetection ==
  /\ trajectory_a = <<>>
  /\ trajectory_b = <<>>
  /\ input_profile_a = [footprint |-> "nullptr", vicinity |-> "nullptr"]
  /\ input_profile_b = [footprint |-> "nullptr", vicinity |-> "nullptr"]
  /\ output_conflicts = [kind |-> "nullptr"]
  /\ pc = "idle"
  /\ profile_a = [footprint |-> "nullptr", vicinity |-> "nullptr"]
  /\ profile_b = [footprint |-> "nullptr", vicinity |-> "nullptr"]
  /\ range_a = <<>>
  /\ range_b = <<>>
  /\ a_it = 0
  /\ b_it = 0
  /\ result = [kind |-> "pending"]
  /\ detected = <<>>
  /\ mirror = [relation |-> "none"]

NoRegionTest == region_call = [pc |-> "idle"]

NoBoundingBox == box_call = [pc |-> "idle"]

\* the steps of between are not recorded
NoObservation == [kind |-> "off"]

Unobserved == observed = NoObservation

SchedInit ==
  /\ NewReservationSystem /\ NoDetection /\ NoRegionTest /\ NoBoundingBox
  /\ observed = NoObservation

\* the live reservation id, as the record reserve returned for it
ReservationOf(scheds, id) ==
  LET w == CHOOSE v \in HoldersOf(scheds, id) : TRUE
      i == CHOOSE j \in 1 .. Len(scheds[w]) : scheds[w][j].id = id
  IN  [id |-> id, waypoint |-> w,
       start |-> scheds[w][i].start, finish |-> scheds[w][i].finish]

\* reserve(start, resources, duration) in a system whose schedules are
\* scheds and whose next id is id: what it returns and what it leaves behind
ReserveResult(scheds, id, start, resources, duration) ==
  LET e == EndOf(start, duration)
      k == ChooseWaypoint(scheds, resources, start, e, 1)
  IN  IF k = 0
      THEN [outcome |-> None, schedules |-> scheds, next_id |-> id]
      ELSE LET r == [id |-> id, waypoint |-> resources[k],
                     start |-> start, finish |-> e]
           IN  [outcome |-> Some(r),
                schedules |->
                  [scheds EXCEPT ![r.waypoint] =
                     InsertOrdered(scheds[r.waypoint],
                                   [id |-> r.id, start |-> r.start,
                                    finish |-> r.finish])],
                next_id |-> NextId(id)]

\* ReservationSystem::reserve(start, resources, duration)
Reserve(start, resources, duration) ==
  \E res \in {ReserveResult(schedules, next_id, start, resources, duration)} :
    LET \* whether the call just before this one cancelled a reservation
        \* that these arguments can have produced: same start, same
        \* duration, and a preference list that holds its waypoint
        repeats == /\ last.op = "cancel"
                   /\ last.outcome = Done
                   /\ last.cancelled.start = start
                   /\ last.cancelled.finish = EndOf(start, duration)
                   /\ \E j \in 1 .. Len(resources) :
                        resources[j] = last.cancelled.waypoint
    IN  /\ (res.outcome # None => next_id < MaxReservations)
        /\ schedules' = res.schedules
        /\ next_id' = res.next_id
        /\ issued' = IF res.outcome = None THEN issued
                     ELSE Append(issued, res.outcome.reservation.id)
        /\ last' = [op |-> "reserve", outcome |-> res.outcome,
                    resources |-> IF res.outcome = None THEN <<>> ELSE resources,
                    after_cancel |-> repeats]
        /\ UNCHANGED <<between_vars, region_vars, box_vars, observe_vars>>

\* ReservationSystem::cancel_reservation(id)
Cancel(id) ==
  \E c \in {CancelResult(schedules, id)} :
    /\ schedules' = c.schedules
    /\ last' = IF HoldersOf(schedules, id) = {}
               THEN [op |-> "cancel", id |-> id, outcome |-> c.outcome]
               ELSE [op |-> "cancel", id |-> id, outcome |-> c.outcome,
                     cancelled |-> ReservationOf(schedules, id)]
    /\ UNCHANGED <<next_id, issued>>
    /\ UNCHANGED <<between_vars, region_vars, box_vars, observe_vars>>

SchedNext ==
  \/ \E start \in Times, resources \in PreferenceLists, duration \in Durations :
       Reserve(start, resources, duration)
  \/ \E id \in 0 .. MaxReservations : Cancel(id)

SchedSpec == SchedInit /\ [][SchedNext]_vars

(***************************************************************************)
(* Scheduler: what the claims speak of, stated instant by instant rather   *)
(* than through the ordered structure                                      *)
(***************************************************************************)
Instants == 0 .. Infinity - 1

\* reservation r occupies instant t
Occupies(r, t) == r.start <= t /\ (r.finish = Infinity \/ t < r.finish)

\* the instants of [s, e)
InstantsOf(s, e) == {t \in Instants : s <= t /\ (e = Infinity \/ t < e)}

\* some reservation of sched occupies an instant of [s, e)
Busy(sched, s, e) ==
  \E t \in InstantsOf(s, e) : \E i \in 1 .. Len(sched) : Occupies(sched[i], t)

LiveIds == {schedules[w][i].id : <<w, i>> \in
              {p \in Waypoints \X (1 .. MaxReservations + 1) :
                 p[2] <= Len(schedules[p[1]])}}

Returned(outcome, w) ==
  outcome.kind = "some" /\ outcome.reservation.waypoint = w

\* C1: after any sequence of reserve and cancel, no two live reservations of
\* one waypoint occupy a common instant (an indefinite hold occupies every
\* instant from its start on).
C1_NoOverlap ==
  \A w \in Waypoints :
    \A i, j \in 1 .. Len(schedules[w]) :
      i # j => ~ \E t \in Instants :
                   Occupies(schedules[w][i], t) /\ Occupies(schedules[w][j], t)

\* two live reservations share a waypoint, the earlier one ending exactly
\* where the indefinite later one starts
C1_Witness ==
  \E w \in Waypoints :
    /\ Len(schedules[w]) = 2
    /\ schedules[w][1].finish = schedules[w][2].start
    /\ schedules[w][2].finish = Infinity

\* C2: in every reachable state, reserve returns a reservation on the first
\* waypoint of the preference list on which the requested interval meets no
\* live reservation, and none exactly when every listed waypoint has one
\* that it meets.
C2_FirstFreeWaypoint ==
  \A start \in Times, duration \in Durations :
    \A free \in {{w \in Waypoints :
                    ~ Busy(schedules[w], start, EndOf(start, duration))}} :
      \A resources \in PreferenceLists :
        \E res \in {ReserveResult(schedules, next_id,
                                  start, resources, duration)} :
          LET listed == {j \in 1 .. Len(resources) : resources[j] \in free}
          IN  IF listed = {}
              THEN res.outcome = None
              ELSE \E j \in listed :
                     /\ \A i \in listed : j <= i
                     /\ Returned(res.outcome, resources[j])

\* the same interval is held on both waypoints, and the one on the second
\* listed waypoint was granted last, to a request that listed both
C2_Witness ==
  /\ last.op = "reserve"
  /\ last.resources = <<wp0, wp1>>
  /\ Returned(last.outcome, wp1)
  /\ \E i \in 1 .. Len(schedules[wp0]) :
       /\ schedules[wp0][i].start = last.outcome.reservation.start
       /\ schedules[wp0][i].finish = last.outcome.reservation.finish
       /\ schedules[wp0][i].id < last.outcome.reservation.id

\* C3: while an indefinite reservation starting at S is live on a waypoint,
\* a reserve on that waypoint alone returns none when it starts at or after
\* S, returns none when it is indefinite and starts before S, and, when it
\* is finite, starts before S and nothing else is reserved there, succeeds
\* iff it ends by S.
C3_IndefiniteHold ==
  \A w \in Waypoints :
    \A i \in 1 .. Len(schedules[w]) :
      schedules[w][i].finish = Infinity =>
        \A start \in Times, duration \in Durations :
          \E res \in {ReserveResult(schedules, next_id,
                                    start, <<w>>, duration)} :
            LET S == schedules[w][i].start
            IN  /\ start >= S => res.outcome = None
                /\ (start < S /\ duration = <<>>) => res.outcome = None
                /\ (start < S /\ duration # <<>> /\ Len(schedules[w]) = 1) =>
                     (Returned(res.outcome, w) <=> start + duration[1] <= S)

\* a finite reservation was granted, to a request for that waypoint alone,
\* in front of a live indefinite hold and ending exactly at its start
C3_Witness ==
  /\ last.op = "reserve"
  /\ last.outcome.kind = "some"
  /\ LET r == last.outcome.reservation
     IN  /\ last.resources = <<r.waypoint>>
         /\ Len(schedules[r.waypoint]) = 2
         /\ schedules[r.waypoint][1].id = r.id
         /\ schedules[r.waypoint][2].finish = Infinity
         /\ schedules[r.waypoint][2].id < r.id
         /\ r.finish = schedules[r.waypoint][2].start

\* C4: touching intervals are admitted: with [s, e) live on a waypoint, a
\* reserve on that waypoint that starts exactly at e, or a finite one that
\* ends exactly at s, succeeds when nothing live on the waypoint meets it.
C4_TouchingAdmitted ==
  \A w \in Waypoints, start \in Times, duration \in Durations :
    LET e == EndOf(start, duration)
    IN  (/\ \E i \in 1 .. Len(schedules[w]) :
               \/ schedules[w][i].finish = start
               \/ (duration # <<>> /\ e = schedules[w][i].start)
         /\ ~ Busy(schedules[w], start, e))
        => Returned(ReserveResult(schedules, next_id,
                                  start, <<w>>, duration).outcome, w)

\* the reservation just granted ends exactly where an older one starts
C4_Witness ==
  /\ last.op = "reserve"
  /\ last.outcome.kind = "some"
  /\ LET r == last.outcome.reservation
     IN  \E i \in 1 .. Len(schedules[r.waypoint]) :
           /\ schedules[r.waypoint][i].id < r.id
           /\ schedules[r.waypoint][i].start = r.finish

\* C5: in every reachable state, cancel(id) of an id that is not live (never
\* issued, or cancelled before) fails with UnknownReservation and leaves
\* every reservation as it was.
C5_CancelUnknown ==
  \A id \in 0 .. MaxReservations :
    id \notin LiveIds =>
      LET c == CancelResult(schedules, id)
      IN  c.outcome = UnknownReservation /\ c.schedules = schedules

\* an id that was issued and cancelled before is cancelled again and refused
C5_Witness ==
  /\ last.op = "cancel"
  /\ last.outcome = UnknownReservation
  /\ \E i \in 1 .. Len(issued) : issued[i] = last.id
  /\ LiveIds # {}

\* C6: cancel round trip: right after cancel(r.id) of a live reservation r,
\* a reserve with the arguments that produced r (r's start, r's duration and
\* a preference list that holds r's waypoint) succeeds.
C6_CancelRoundTrip ==
  (last.op = "reserve" /\ last.after_cancel) => last.outcome.kind = "some"

\* a request that listed both waypoints is repeated right after the cancel
\* of the reservation it produced, and is granted
C6_Witness ==
  /\ last.op = "reserve"
  /\ last.after_cancel
  /\ Len(last.resources) = 2
  /\ last.outcome.kind = "some"

\* C7: ids strictly increase in issue order, so none is issued twice (also
\* not after its reservation was cancelled), and live reservations have
\* distinct ids.
C7_IdsIncrease ==
  /\ \A i, j \in 1 .. Len(issued) : i < j => issued[i] < issued[j]
  /\ \A w, v \in Waypoints :
       \A i \in 1 .. Len(schedules[w]), j \in 1 .. Len(schedules[v]) :
         schedules[w][i].id = schedules[v][j].id => (w = v /\ i = j)
  /\ LiveIds \subseteq {issued[i] : i \in 1 .. Len(issued)}

\* a second id was issued after the first reservation was cancelled
C7_Witness ==
  /\ Len(issued) = 2
  /\ issued[1] \notin LiveIds
  /\ issued[2] \in LiveIds


(***************************************************************************)
(* Conflict engine: data                                                   *)
(***************************************************************************)
\* an absent shape, an absent output list
NoShape == "nullptr"
Null == [kind |-> "nullptr"]

\* a profile holds two optional shapes; "body" and "zone" are distinct
\* FinalConvexShape objects
Profiles == [footprint : {NoShape, "body"}, vicinity : {NoShape, "zone"}]

\* a trajectory is given by its waypoint times, strictly increasing
Trajectories ==
  UNION {{t \in [1 .. n -> 0 .. MaxInstant] :
            \A i \in 1 .. n - 1 : t[i] < t[i + 1]} : n \in 0 .. MaxWaypoints}

\* an entry the caller's list holds before the call
Stale == [a |-> 0, b |-> 0, time |-> -1]

Pending == [kind |-> "pending"]
InvalidTrajectory(n) == [kind |-> "InvalidTrajectory", segments |-> n]
Time(t) == [kind |-> "some", time |-> t]
\* the call ran into undefined behaviour and did not return
Undefined == [kind |-> "undefined"]

Max(x, y) == IF x < y THEN y ELSE x
Min(x, y) == IF x < y THEN x ELSE y

(***************************************************************************)
(* Conflict engine: helpers of DetectConflict.cpp                          *)
(***************************************************************************)
\* Plausible slip: trajectories that only touch are taken as disjoint.
have_time_overlap_strict(ta, tb) ==
  IF tb[Len(tb)] <= ta[1] THEN FALSE
  ELSE IF ta[Len(ta)] <= tb[1] THEN FALSE
  ELSE TRUE

have_time_overlap(ta, tb) ==
  IF tb[Len(tb)] < ta[1] THEN FALSE
  ELSE IF ta[Len(ta)] < tb[1] THEN FALSE
  ELSE TRUE

\* Trajectory::find(t): the waypoint that ends the segment containing t
RECURSIVE find_from(_, _, _)
find_from(traj, t, i) ==
  IF i > Len(traj) THEN i
  ELSE IF traj[i] >= t THEN i
  ELSE find_from(traj, t, i + 1)

find(traj, t) == find_from(traj, t, 1)

\* Plausible slip: both iterators start at the second waypoint, whichever
\* trajectory starts first.
get_initial_iterators_unsought(ta, tb) == <<2, 2>>

get_initial_iterators(ta, tb) ==
  IF ta[1] < tb[1] THEN <<find(ta, tb[1]), 2>>
  ELSE IF tb[1] < ta[1] THEN <<2, find(tb, ta[1])>>
  ELSE <<2, 2>>

\* Spline(it): the segment that ends at the waypoint it points at
spline_start(traj, it) == traj[it - 1]
spline_finish(traj, it) == traj[it]

\* Plausible slip: the vicinity is left as it was passed in.
convert_profile_unchanged(profile) == profile

convert_profile(profile) ==
  IF profile.vicinity = NoShape
  THEN [profile EXCEPT !.vicinity = profile.footprint]
  ELSE profile

\* Duration::rep(x): conversion of a double to an integer truncates
Truncate(num, den) ==
  IF num >= 0 THEN num \div den ELSE -((-num) \div den)

\* compute_time(n / FractionSteps, start_time, finish_time)
compute_time(n, start_time, finish_time) ==
  start_time + Truncate(n * (finish_time - start_time), FractionSteps)

\* fcl::collide on two shapes at an instant: what it can answer. The shapes
\* are dereferenced before the call, so an absent one is undefined behaviour,
\* after which the call may crash or go on with either answer.
collide(shape_a, shape_b) ==
  IF shape_a = NoShape \/ shape_b = NoShape
  THEN {"overlap", "clear", "undefined"}
  ELSE {"overlap", "clear"}

\* check_overlap: (footprint_a, vicinity_b) first, then (vicinity_a,
\* footprint_b) when the first pair does not collide
check_overlap(pa, pb) ==
  {o \in collide(pa.footprint, pb.vicinity) : o # "clear"}
    \cup (IF "clear" \in collide(pa.footprint, pb.vicinity)
          THEN collide(pa.vicinity, pb.footprint)
          ELSE {})

\* no contact found by the narrowphase
NoHit == -1

\* the test was not made: test_complement is false at line 727
Skipped == -2

\* the test found a contact
Hit(n) == n \notin {NoHit, Skipped}

\* overlap(box_a, box_b) followed by check_collision(shape_a, shape_b): the
\* fraction of the window at first contact. The box of an absent shape is
\* void_box(), which overlaps nothing, so check_collision is not reached.
broadphase_then_collision(shape_a, shape_b) ==
  IF shape_a = NoShape \/ shape_b = NoShape
  THEN {NoHit}
  ELSE {NoHit} \cup (0 .. FractionSteps)

\* Plausible slip: the comparisons are the wrong way round, so that the
\* iterator whose spline finishes last is advanced.
advance_later(ra, ai, rb, bi) ==
  IF spline_finish(ra, ai) > spline_finish(rb, bi) THEN <<ai + 1, bi>>
  ELSE IF spline_finish(rb, bi) > spline_finish(ra, ai) THEN <<ai, bi + 1>>
  ELSE <<ai + 1, bi + 1>>

\* Plausible slip: the branch for equal finish times is missing.
advance_unless_tied(ra, ai, rb, bi) ==
  IF spline_finish(ra, ai) < spline_finish(rb, bi) THEN <<ai + 1, bi>>
  ELSE IF spline_finish(rb, bi) < spline_finish(ra, ai) THEN <<ai, bi + 1>>
  ELSE <<ai, bi>>

\* Plausible slip: both iterators are advanced after every pair.
advance_both(ra, ai, rb, bi) == <<ai + 1, bi + 1>>

\* ++it on the iterator(s) whose spline finishes first (lines 744-761, 860-877)
advance(ra, ai, rb, bi) ==
  IF spline_finish(ra, ai) < spline_finish(rb, bi) THEN <<ai + 1, bi>>
  ELSE IF spline_finish(rb, bi) < spline_finish(ra, ai) THEN <<ai, bi + 1>>
  ELSE <<ai + 1, bi + 1>>

\* lines 764-770 and 888-894
final_result(conflicts) ==
  IF conflicts = Null THEN None
  ELSE IF conflicts.list = <<>> THEN None
  ELSE Time(conflicts.list[1].time)

List(l) == [kind |-> "list", list |-> l]

\* Plausible slip: the conflict is not added to the caller's list.
emplace_back_dropped(conflicts, c) == conflicts

emplace_back(conflicts, c) == List(Append(conflicts.list, c))

\* slice_trajectory: a waypoint at start_time, then the waypoints from it on;
\* Trajectory::insert keeps one waypoint per time
slice_trajectory(start_time, traj, it) ==
  <<start_time>> \o
    SelectSeq(SubSeq(traj, it, Len(traj)), LAMBDA t : t # start_time)

(***************************************************************************)
(* Conflict engine: DetectConflict::Implementation::between, step by step. *)
(* Each step is a function of the state of the call and of the answers of  *)
(* the geometry library during the step.                                   *)
(***************************************************************************)
\* the state of the call
Call ==
  [trajectory_a |-> trajectory_a, trajectory_b |-> trajectory_b,
   input_profile_a |-> input_profile_a, input_profile_b |-> input_profile_b,
   output_conflicts |-> output_conflicts, pc |-> pc,
   profile_a |-> profile_a, profile_b |-> profile_b,
   range_a |-> range_a, range_b |-> range_b,
   a_it |-> a_it, b_it |-> b_it, result |-> result, detected |-> detected]

\* between(input_profile_a, trajectory_a, input_profile_b, trajectory_b,
\*         interpolation, output_conflicts) is entered
Entry(pa, ta, pb, tb, conflicts) ==
  [trajectory_a |-> ta, trajectory_b |-> tb,
   input_profile_a |-> pa, input_profile_b |-> pb,
   output_conflicts |-> conflicts, pc |-> "between",
   profile_a |-> [footprint |-> NoShape, vicinity |-> NoShape],
   profile_b |-> [footprint |-> NoShape, vicinity |-> NoShape],
   range_a |-> ta, range_b |-> tb,
   a_it |-> 0, b_it |-> 0, result |-> Pending, detected |-> <<>>]

Return(s, value) == [s EXCEPT !.pc = "done", !.result = value]

\* lines 908-920
check_trajectories(s) ==
  IF Len(s.trajectory_a) < 2
  THEN Return(s, InvalidTrajectory(Len(s.trajectory_a)))
  ELSE IF Len(s.trajectory_b) < 2
  THEN Return(s, InvalidTrajectory(Len(s.trajectory_b)))
  ELSE [s EXCEPT !.pc = "convert_profile"]

\* lines 922-923
convert_profiles(s) ==
  [s EXCEPT !.profile_a = convert_profile(s.input_profile_a),
            !.profile_b = convert_profile(s.input_profile_b),
            !.pc = "geometry"]

\* Plausible slip: a profile is only given up on when both lack a vicinity.
missing_vicinity_both(pa, pb) ==
  pa.vicinity = NoShape /\ pb.vicinity = NoShape

\* line 935
missing_vicinity(pa, pb) ==
  pa.vicinity = NoShape \/ pb.vicinity = NoShape

\* line 927
no_geometry(pa, pb) ==
  pa.footprint = NoShape /\ pb.footprint = NoShape

\* lines 925-936
check_geometry(s) ==
  IF no_geometry(s.profile_a, s.profile_b)
  THEN Return(s, None)
  ELSE IF missing_vicinity(s.profile_a, s.profile_b)
  THEN Return(s, None)
  ELSE [s EXCEPT !.pc = "time_overlap"]

\* lines 938-940
check_time_overlap(s) ==
  IF ~ have_time_overlap(s.trajectory_a, s.trajectory_b)
  THEN Return(s, None)
  ELSE [s EXCEPT !.pc = "iterators"]

\* lines 942-944
initial_iterators(s) ==
  [s EXCEPT !.a_it = get_initial_iterators(s.trajectory_a, s.trajectory_b)[1],
            !.b_it = get_initial_iterators(s.trajectory_a, s.trajectory_b)[2],
            !.pc = "close_start"]

\* lines 946-969, with close_start (640-656); close is what check_overlap
\* answers at the later of the two spline start times
close_start(s, close) ==
  CASE close = "undefined" -> Return(s, Undefined)
    [] close = "overlap" -> [s EXCEPT !.pc = "detect_approach"]
    [] close = "clear" -> [s EXCEPT !.pc = "detect_invasion"]

\* lines 650-653: the instant at which close_start has check_overlap look
close_start_time(s) ==
  Max(spline_start(s.range_a, s.a_it), spline_start(s.range_b, s.b_it))

\* detect_invasion up to its loop: lines 668-685
enter_invasion(s) ==
  [s EXCEPT !.output_conflicts =
              IF s.output_conflicts = Null THEN Null ELSE List(<<>>),
            !.pc = "invasion_loop"]

\* lines 680-682
test_complement(s) ==
  \/ s.profile_a.vicinity # s.profile_a.footprint
  \/ s.profile_b.vicinity # s.profile_b.footprint

\* one pass of the loop of detect_invasion, or its return: lines 687-771;
\* first and second are what the two tests of the pass answer
invasion_loop(s, first, second) ==
  IF s.a_it > Len(s.range_a) \/ s.b_it > Len(s.range_b)
  THEN Return(s, final_result(s.output_conflicts))
  ELSE
    LET start_time == Max(spline_start(s.range_a, s.a_it),
                          spline_start(s.range_b, s.b_it))
        finish_time == Min(spline_finish(s.range_a, s.a_it),
                           spline_finish(s.range_b, s.b_it))
        next == advance(s.range_a, s.a_it, s.range_b, s.b_it)
        hit1 == [a |-> s.a_it, b |-> s.b_it,
                 time |-> compute_time(first, start_time, finish_time)]
        hit2 == [a |-> s.a_it, b |-> s.b_it,
                 time |-> compute_time(second, start_time, finish_time)]
    IN  IF Hit(first) /\ s.output_conflicts = Null
        THEN [Return(s, Time(hit1.time))
                EXCEPT !.detected = Append(s.detected, hit1)]
        ELSE IF Hit(second) /\ s.output_conflicts = Null
        THEN [Return(s, Time(hit2.time))
                EXCEPT !.detected = Append(s.detected, hit2)]
        ELSE
          LET hits == (IF Hit(first) THEN <<hit1>> ELSE <<>>)
                        \o (IF Hit(second) THEN <<hit2>> ELSE <<>>)
          IN  [s EXCEPT !.output_conflicts =
                          IF s.output_conflicts = Null THEN Null
                          ELSE List(s.output_conflicts.list \o hits),
                        !.detected = s.detected \o hits,
                        !.a_it = next[1],
                        !.b_it = next[2]]

\* DistanceDifferential::approach_times(): instants of (t0, t1], in order
RECURSIVE Ascending(_)
Ascending(set) ==
  IF set = {} THEN <<>>
  ELSE LET least == CHOOSE t \in set : \A u \in set : t <= u
       IN  <<least>> \o Ascending(set \ {least})

approach_times(t0, t1) == {Ascending(set) : set \in SUBSET ((t0 + 1) .. t1)}

\* lines 826-855: the approach times from the k-th on. overlaps[k] is what
\* check_overlap answers at times[k]; conflicts is the caller's list and
\* seen the conflicts found so far.
RECURSIVE for_approach_times(_, _, _, _, _, _)
for_approach_times(s, times, overlaps, k, conflicts, seen) ==
  IF k > Len(times)
  THEN [kind |-> "next", conflicts |-> conflicts, detected |-> seen]
  ELSE IF overlaps[k] = "undefined"
  THEN [kind |-> "undefined", conflicts |-> conflicts, detected |-> seen]
  ELSE IF overlaps[k] = "clear"
  THEN [kind |-> "slice", time |-> times[k], conflicts |-> conflicts,
        detected |-> seen]
  ELSE
    LET c == [a |-> s.a_it, b |-> s.b_it, time |-> times[k]]
    IN  IF conflicts = Null
        THEN [kind |-> "return", time |-> times[k],
              detected |-> Append(seen, c)]
        ELSE for_approach_times(s, times, overlaps, k + 1,
                                emplace_back(conflicts, c), Append(seen, c))

\* one pass of the loop of detect_approach, or its return: lines 805-895;
\* ans holds what DistanceDifferential and check_overlap answer in the pass
approach_loop(s, ans) ==
  IF s.a_it > Len(s.range_a) \/ s.b_it > Len(s.range_b)
  THEN Return(s, final_result(s.output_conflicts))
  ELSE
    LET t0 == Max(spline_start(s.range_a, s.a_it),
                  spline_start(s.range_b, s.b_it))
        next == advance(s.range_a, s.a_it, s.range_b, s.b_it)
        c0 == [a |-> s.a_it, b |-> s.b_it, time |-> t0]
    IN  IF ans.initially_approaching /\ s.output_conflicts = Null
        THEN [Return(s, Time(t0)) EXCEPT !.detected = Append(s.detected, c0)]
        ELSE
          LET found == IF ans.initially_approaching
                       THEN emplace_back(s.output_conflicts, c0)
                       ELSE s.output_conflicts
              seen0 == IF ans.initially_approaching
                       THEN Append(s.detected, c0)
                       ELSE s.detected
              seen == for_approach_times(s, ans.times, ans.overlaps, 1,
                                         found, seen0)
          IN  CASE seen.kind = "undefined" ->
                     [Return(s, Undefined)
                        EXCEPT !.output_conflicts = seen.conflicts,
                               !.detected = seen.detected]
                [] seen.kind = "return" ->
                     [Return(s, Time(seen.time))
                        EXCEPT !.detected = seen.detected]
                [] seen.kind = "slice" ->
                     [s EXCEPT
                        !.range_a =
                          slice_trajectory(seen.time, s.range_a, s.a_it),
                        !.range_b =
                          slice_trajectory(seen.time, s.range_b, s.b_it),
                        !.a_it = 2,
                        !.b_it = 2,
                        !.output_conflicts = seen.conflicts,
                        !.detected = seen.detected,
                        !.pc = "detect_invasion"]
                [] seen.kind = "next" ->
                     IF ans.still_close = "undefined"
                     THEN [Return(s, Undefined)
                             EXCEPT !.output_conflicts = seen.conflicts,
                                    !.detected = seen.detected]
                     ELSE [s EXCEPT
                             !.output_conflicts = seen.conflicts,
                             !.detected = seen.detected,
                             !.a_it = next[1],
                             !.b_it = next[2],
                             !.pc = IF ans.still_close = "clear"
                                    THEN "detect_invasion"
                                    ELSE "detect_approach"]
\* no geometry is asked for in the step
NoAnswer == [kind |-> "none"]

\* what the two tests of a pass of detect_invasion can answer
invasion_answers(s) ==
  IF s.a_it > Len(s.range_a) \/ s.b_it > Len(s.range_b)
  THEN {[first |-> NoHit, second |-> NoHit]}
  ELSE {[first |-> f, second |-> g] :
          f \in broadphase_then_collision(s.profile_a.footprint,
                                          s.profile_b.vicinity),
          g \in IF test_complement(s)
                THEN broadphase_then_collision(s.profile_a.vicinity,
                                               s.profile_b.footprint)
                ELSE {Skipped}}

\* what DistanceDifferential and check_overlap can answer in a pass of
\* detect_approach
approach_answers(s) ==
  IF s.a_it > Len(s.range_a) \/ s.b_it > Len(s.range_b)
  THEN {[initially_approaching |-> FALSE, times |-> <<>>,
         overlaps |-> <<>>, still_close |-> "clear"]}
  ELSE
    LET t0 == Max(spline_start(s.range_a, s.a_it),
                  spline_start(s.range_b, s.b_it))
        t1 == Min(spline_finish(s.range_a, s.a_it),
                  spline_finish(s.range_b, s.b_it))
    IN  UNION {[initially_approaching : BOOLEAN,
                times : {times},
                overlaps : [1 .. Len(times) ->
                              check_overlap(s.profile_a, s.profile_b)],
                still_close : check_overlap(s.profile_a, s.profile_b)] :
               times \in approach_times(t0, t1)}

\* the step the call takes from s
step(s, ans) ==
  CASE s.pc = "between" -> check_trajectories(s)
    [] s.pc = "convert_profile" -> convert_profiles(s)
    [] s.pc = "geometry" -> check_geometry(s)
    [] s.pc = "time_overlap" -> check_time_overlap(s)
    [] s.pc = "iterators" -> initial_iterators(s)
    [] s.pc = "close_start" -> close_start(s, ans.close)
    [] s.pc = "detect_invasion" -> enter_invasion(s)
    [] s.pc = "invasion_loop" -> invasion_loop(s, ans.first, ans.second)
    [] s.pc = "detect_approach" -> approach_loop(s, ans)
    [] OTHER -> s

(***************************************************************************)
(* A second call on related arguments, made in the same world: every       *)
(* question it asks the geometry library gets the answer the first call    *)
(* gets for the same shapes and instants.                                  *)
(***************************************************************************)
NoMirror == [relation |-> "none"]

\* the answers as the second call sees them
mirror_answer(m, ans) ==
  CASE m.relation = "swap" /\ m.call.pc = "invasion_loop" ->
         \* its first test is on the shapes of the first call's second test
         IF test_complement(m.call)
         THEN [first |-> ans.second, second |-> ans.first]
         ELSE ans
    [] m.relation = "shift" /\ m.call.pc = "detect_approach" ->
         [ans EXCEPT !.times = [k \in DOMAIN ans.times |->
                                  ans.times[k] + m.shift]]
    [] OTHER -> ans

mirror_step(ans) ==
  IF mirror = NoMirror THEN mirror
  ELSE IF mirror.call.pc # pc THEN mirror
  ELSE [mirror EXCEPT !.call = step(mirror.call, mirror_answer(mirror, ans))]

(***************************************************************************)
(* History of the call: the state it was in before its last step, what the *)
(* geometry library answered during the step, and two counts.              *)
(***************************************************************************)
\* the step from s enters the body of a loop: lines 687 and 805
examines_pair(s) ==
  /\ s.pc \in {"invasion_loop", "detect_approach"}
  /\ s.a_it <= Len(s.range_a)
  /\ s.b_it <= Len(s.range_b)

\* the step from s to next is a call of detect_invasion by detect_approach:
\* lines 842 and 881
hands_off(s, next) ==
  s.pc = "detect_approach" /\ next.pc = "detect_invasion"

\* the pass of detect_invasion from s reaches line 727 and makes the second
\* test: the first has not returned at line 718 and test_complement is true
makes_complement(s, ans) ==
  /\ ~ (Hit(ans.first) /\ s.output_conflicts = Null)
  /\ ans.second # Skipped

\* what is kept of the answers given during the step from s: the answer of
\* close_start; the contacts of the two tests of the pass and whether the
\* second test was made; whether DistanceDifferential reported an initial
\* approach
kept(s, ans) ==
  CASE s.pc = "close_start" -> [close |-> ans.close]
    [] s.pc = "invasion_loop" /\ examines_pair(s) ->
         [first |-> ans.first,
          second |-> IF makes_complement(s, ans) THEN ans.second ELSE Skipped,
          complement |-> makes_complement(s, ans)]
    [] s.pc = "detect_approach" /\ examines_pair(s) ->
         [initially_approaching |-> ans.initially_approaching]
    [] OTHER -> NoAnswer

\* what is kept of the state s the step starts from: the statement, the
\* iterators and the trajectories they range over, and the number of
\* conflicts found so far
where(s) ==
  [pc |-> s.pc, a_it |-> s.a_it, b_it |-> s.b_it,
   range_a |-> s.range_a, range_b |-> s.range_b, found |-> Len(s.detected)]

Observation(s) ==
  [kind |-> "on", before |-> where(s), ans |-> NoAnswer,
   examined |-> 0, handoffs |-> 0]

\* the fuller history: every answer given during the step, the answer of
\* close_start, and whether so far a pair of approach mode was initially
\* approaching or had an approach time, whether a pass of approach mode
\* found a conflict, and whether a test of invasion mode found a contact
approaches(s, ans) ==
  /\ s.pc = "detect_approach"
  /\ examines_pair(s)
  /\ (ans.initially_approaching \/ ans.times # <<>>)

invades(s, ans) ==
  /\ s.pc = "invasion_loop"
  /\ examines_pair(s)
  /\ (Hit(ans.first) \/ (makes_complement(s, ans) /\ Hit(ans.second)))

FullObservation(s) ==
  [kind |-> "full", before |-> where(s), ans |-> NoAnswer,
   close |-> "unknown", approached |-> FALSE, conflicted |-> FALSE,
   invaded |-> FALSE]

observe_fully(s, ans, next) ==
  [kind |-> "full", before |-> where(s),
   ans |-> IF s.pc = "detect_approach" /\ examines_pair(s) THEN ans
           ELSE kept(s, ans),
   close |-> IF s.pc = "close_start" THEN ans.close ELSE observed.close,
   approached |-> observed.approached \/ approaches(s, ans),
   conflicted |-> \/ observed.conflicted
                  \/ /\ s.pc = "detect_approach"
                     /\ Len(next.detected) > Len(s.detected),
   invaded |-> observed.invaded \/ invades(s, ans)]

observe(s, ans, next) ==
  IF observed = NoObservation THEN observed
  ELSE IF observed.kind = "full" THEN observe_fully(s, ans, next)
  ELSE [kind |-> "on", before |-> where(s), ans |-> kept(s, ans),
        examined |-> observed.examined + (IF examines_pair(s) THEN 1 ELSE 0),
        handoffs |-> observed.handoffs + (IF hands_off(s, next) THEN 1 ELSE 0)]

(***************************************************************************)
(* Conflict engine: the actions                                            *)
(***************************************************************************)
BetweenInit ==
  /\ NewReservationSystem
  /\ Unobserved
  /\ NoBoundingBox
  /\ trajectory_a \in Trajectories
  /\ trajectory_b \in Trajectories
  /\ input_profile_a \in Profiles
  /\ input_profile_b \in Profiles
  /\ output_conflicts \in {Null, List(<<Stale>>)}
  /\ pc = "between"
  /\ profile_a = [footprint |-> NoShape, vicinity |-> NoShape]
  /\ profile_b = [footprint |-> NoShape, vicinity |-> NoShape]
  /\ range_a = trajectory_a
  /\ range_b = trajectory_b
  /\ a_it = 0
  /\ b_it = 0
  /\ result = Pending
  /\ detected = <<>>
  /\ mirror = NoMirror
  /\ NoRegionTest

\* the call is in state next after the step
Becomes(next, ans) ==
  \E n \in {next} :
    /\ trajectory_a' = n.trajectory_a
    /\ trajectory_b' = n.trajectory_b
    /\ input_profile_a' = n.input_profile_a
    /\ input_profile_b' = n.input_profile_b
    /\ output_conflicts' = n.output_conflicts
    /\ pc' = n.pc
    /\ profile_a' = n.profile_a
    /\ profile_b' = n.profile_b
    /\ range_a' = n.range_a
    /\ range_b' = n.range_b
    /\ a_it' = n.a_it
    /\ b_it' = n.b_it
    /\ result' = n.result
    /\ detected' = n.detected
    /\ mirror' = mirror_step(ans)
    /\ observed' = observe(Call, ans, n)
    /\ UNCHANGED <<sched_vars, region_vars, box_vars>>

CheckTrajectories ==
  /\ pc = "between"
  /\ Becomes(check_trajectories(Call), NoAnswer)

ConvertProfiles ==
  /\ pc = "convert_profile"
  /\ Becomes(convert_profiles(Call), NoAnswer)

CheckGeometry ==
  /\ pc = "geometry"
  /\ Becomes(check_geometry(Call), NoAnswer)

CheckTimeOverlap ==
  /\ pc = "time_overlap"
  /\ Becomes(check_time_overlap(Call), NoAnswer)

GetInitialIterators ==
  /\ pc = "iterators"
  /\ Becomes(initial_iterators(Call), NoAnswer)

CloseStart ==
  /\ pc = "close_start"
  /\ \E close \in check_overlap(profile_a, profile_b) :
       Becomes(close_start(Call, close), [close |-> close])

EnterInvasion ==
  /\ pc = "detect_invasion"
  /\ Becomes(enter_invasion(Call), NoAnswer)

InvasionLoop ==
  /\ pc = "invasion_loop"
  /\ \E ans \in invasion_answers(Call) :
       Becomes(invasion_loop(Call, ans.first, ans.second), ans)

ApproachLoop ==
  /\ pc = "detect_approach"
  /\ \E ans \in approach_answers(Call) :
       Becomes(approach_loop(Call, ans), ans)

BetweenNext ==
  \/ CheckTrajectories
  \/ ConvertProfiles
  \/ CheckGeometry
  \/ CheckTimeOverlap
  \/ GetInitialIterators
  \/ CloseStart
  \/ EnterInvasion
  \/ InvasionLoop
  \/ ApproachLoop

BetweenSpec == BetweenInit /\ [][BetweenNext]_vars

\* between, with its steps recorded
EngineInit ==
  /\ NewReservationSystem
  /\ NoBoundingBox
  /\ NoRegionTest
  /\ \E ta \in Trajectories, tb \in Trajectories,
        pa \in Profiles, pb \in Profiles,
        conflicts \in {Null, List(<<Stale>>)} :
       /\ trajectory_a = ta
       /\ trajectory_b = tb
       /\ input_profile_a = pa
       /\ input_profile_b = pb
       /\ output_conflicts = conflicts
       /\ range_a = ta
       /\ range_b = tb
       /\ observed = Observation(Entry(pa, ta, pb, tb, conflicts))
  /\ pc = "between"
  /\ profile_a = [footprint |-> NoShape, vicinity |-> NoShape]
  /\ profile_b = [footprint |-> NoShape, vicinity |-> NoShape]
  /\ a_it = 0
  /\ b_it = 0
  /\ result = Pending
  /\ detected = <<>>
  /\ mirror = NoMirror

EngineSpec == EngineInit /\ [][BetweenNext]_vars

\* the call is not suspended: it runs on while it has a step to take
EngineFairSpec == EngineSpec /\ WF_vars(BetweenNext)

\* between, with the answers of its steps recorded in full
ApproachInit ==
  /\ NewReservationSystem
  /\ NoBoundingBox
  /\ NoRegionTest
  /\ \E ta \in Trajectories, tb \in Trajectories,
        pa \in Profiles, pb \in Profiles,
        conflicts \in {Null, List(<<Stale>>)} :
       /\ trajectory_a = ta
       /\ trajectory_b = tb
       /\ input_profile_a = pa
       /\ input_profile_b = pb
       /\ output_conflicts = conflicts
       /\ range_a = ta
       /\ range_b = tb
       /\ observed = FullObservation(Entry(pa, ta, pb, tb, conflicts))
  /\ pc = "between"
  /\ profile_a = [footprint |-> NoShape, vicinity |-> NoShape]
  /\ profile_b = [footprint |-> NoShape, vicinity |-> NoShape]
  /\ a_it = 0
  /\ b_it = 0
  /\ result = Pending
  /\ detected = <<>>
  /\ mirror = NoMirror

ApproachSpec == ApproachInit /\ [][BetweenNext]_vars

\* between(A, TA, B, TB) next to between(B, TB, A, TA)
SwapInit ==
  /\ NewReservationSystem
  /\ Unobserved
  /\ NoBoundingBox
  /\ \E ta \in Trajectories, tb \in Trajectories,
        pa \in Profiles, pb \in Profiles,
        conflicts \in {Null, List(<<Stale>>)} :
       /\ trajectory_a = ta
       /\ trajectory_b = tb
       /\ input_profile_a = pa
       /\ input_profile_b = pb
       /\ output_conflicts = conflicts
       /\ range_a = ta
       /\ range_b = tb
       /\ mirror = [relation |-> "swap", shift |-> 0,
                    call |-> Entry(pb, tb, pa, ta, conflicts)]
  /\ pc = "between"
  /\ profile_a = [footprint |-> NoShape, vicinity |-> NoShape]
  /\ profile_b = [footprint |-> NoShape, vicinity |-> NoShape]
  /\ a_it = 0
  /\ b_it = 0
  /\ result = Pending
  /\ detected = <<>>
  /\ NoRegionTest

SwapSpec == SwapInit /\ [][BetweenNext]_vars

\* the extended form of between next to the simple form on the same
\* arguments, with the answers recorded in full
FormInit ==
  /\ NewReservationSystem
  /\ NoBoundingBox
  /\ NoRegionTest
  /\ \E ta \in Trajectories, tb \in Trajectories,
        pa \in Profiles, pb \in Profiles,
        conflicts \in {List(<<>>), List(<<Stale>>)} :
       /\ trajectory_a = ta
       /\ trajectory_b = tb
       /\ input_profile_a = pa
       /\ input_profile_b = pb
       /\ output_conflicts = conflicts
       /\ range_a = ta
       /\ range_b = tb
       /\ observed = FullObservation(Entry(pa, ta, pb, tb, conflicts))
       /\ mirror = [relation |-> "form", shift |-> 0,
                    call |-> Entry(pa, ta, pb, tb, Null)]
  /\ pc = "between"
  /\ profile_a = [footprint |-> NoShape, vicinity |-> NoShape]
  /\ profile_b = [footprint |-> NoShape, vicinity |-> NoShape]
  /\ a_it = 0
  /\ b_it = 0
  /\ result = Pending
  /\ detected = <<>>

FormSpec == FormInit /\ [][BetweenNext]_vars

(***************************************************************************)
(* Region against trajectory: internal::detect_conflicts, step by step     *)
(***************************************************************************)
\* an optional time: <<>> is "no bound", <<t>> the bound t
OptionalTimes == {<<>>} \cup {<<t>> : t \in 0 .. MaxInstant}

\* the shape of a region decomposes into this many convex pieces
RegionPieces == {1, 2}

\* a Spacetime region: its time window and the pieces of its shape
Regions ==
  [lower_time_bound : OptionalTimes, upper_time_bound : OptionalTimes,
   pieces : RegionPieces]

\* internal callers pass trajectories with at least two waypoints
ValidTrajectorySet == {t \in Trajectories : Len(t) >= 2}

Conflicting(b) == [kind |-> "bool", value |-> b]

\* Profile::vicinity(): the vicinity, or the footprint when none was set
vicinity_of(profile) ==
  IF profile.vicinity # NoShape THEN profile.vicinity ELSE profile.footprint

\* detect_conflicts(profile, trajectory, region, output_conflicts) is entered
RegionEntry(profile, trajectory, region, conflicts) ==
  [profile |-> profile, trajectory |-> trajectory, region |-> region,
   output_conflicts |-> conflicts, pc |-> "detect_conflicts",
   vicinity |-> NoShape, start_time |-> 0, finish_time |-> 0,
   begin_it |-> 0, end_it |-> 0, it |-> 0,
   result |-> Pending, tested |-> <<>>]

RegionReturn(s, value) == [s EXCEPT !.pc = "done", !.result = value]

\* lines 995-997
region_vicinity(s) ==
  IF vicinity_of(s.profile) = NoShape
  THEN RegionReturn(s, Conflicting(FALSE))
  ELSE [s EXCEPT !.vicinity = vicinity_of(s.profile), !.pc = "time_window"]

\* lines 1002-1004
region_start_time(region, trajectory) ==
  IF region.lower_time_bound # <<>>
  THEN Max(region.lower_time_bound[1], trajectory[1])
  ELSE trajectory[1]

\* lines 1006-1008
region_finish_time(region, trajectory) ==
  IF region.upper_time_bound # <<>>
  THEN Min(region.upper_time_bound[1], trajectory[Len(trajectory)])
  ELSE trajectory[Len(trajectory)]

\* lines 999-1016
region_time_window(s) ==
  LET start_time == region_start_time(s.region, s.trajectory)
      finish_time == region_finish_time(s.region, s.trajectory)
  IN  IF finish_time < start_time
      THEN [RegionReturn(s, Conflicting(FALSE))
              EXCEPT !.start_time = start_time, !.finish_time = finish_time]
      ELSE [s EXCEPT !.start_time = start_time, !.finish_time = finish_time,
                     !.pc = "iterators"]

\* Plausible slip: the first segment is taken without seeking the window.
begin_unsought(trajectory, start_time) == 2

\* lines 1018-1020
begin_of(trajectory, start_time) ==
  IF trajectory[1] < start_time THEN find(trajectory, start_time) ELSE 2

\* lines 1022-1024
end_of(trajectory, finish_time) ==
  IF finish_time < trajectory[Len(trajectory)]
  THEN find(trajectory, finish_time) + 1
  ELSE Len(trajectory) + 1

\* lines 1018-1037
region_iterators(s) ==
  [s EXCEPT !.begin_it = begin_of(s.trajectory, s.start_time),
            !.end_it = end_of(s.trajectory, s.finish_time),
            !.it = begin_of(s.trajectory, s.start_time),
            !.output_conflicts =
              IF s.output_conflicts = Null THEN Null ELSE List(<<>>),
            !.pc = "loop"]

\* lines 1044-1045
clipped_start(s) == Max(spline_start(s.trajectory, s.it), s.start_time)

\* lines 1046-1047
clipped_finish(s) == Min(spline_finish(s.trajectory, s.it), s.finish_time)

\* lines 1057-1080: the pieces from the k-th on; hits[k] is the fraction at
\* which fcl::collide finds the vicinity in contact with the k-th piece
RECURSIVE for_region_shapes(_, _, _, _)
for_region_shapes(s, hits, k, conflicts) ==
  IF k > s.region.pieces THEN [kind |-> "next", conflicts |-> conflicts]
  ELSE IF hits[k] = NoHit
  THEN for_region_shapes(s, hits, k + 1, conflicts)
  ELSE IF conflicts = Null THEN [kind |-> "return"]
  ELSE for_region_shapes(s, hits, k + 1,
         emplace_back(conflicts,
           [a |-> s.it, b |-> s.it,
            time |-> compute_time(hits[k], clipped_start(s),
                                  clipped_finish(s))]))

\* one pass of the loop over the segments, or the return: lines 1039-1088
region_loop(s, hits) ==
  IF s.it = s.end_it
  THEN RegionReturn(s,
         IF s.output_conflicts = Null THEN Conflicting(FALSE)
         ELSE Conflicting(s.output_conflicts.list # <<>>))
  ELSE
    LET window == [it |-> s.it, start |-> clipped_start(s),
                   finish |-> clipped_finish(s)]
        seen == for_region_shapes(s, hits, 1, s.output_conflicts)
    IN  IF seen.kind = "return"
        THEN [RegionReturn(s, Conflicting(TRUE))
                EXCEPT !.tested = Append(s.tested, window)]
        ELSE [s EXCEPT !.tested = Append(s.tested, window),
                       !.output_conflicts = seen.conflicts,
                       !.it = s.it + 1]

\* what fcl::collide can answer for the pieces in a pass
region_answers(s) ==
  IF s.it = s.end_it THEN {<<>>}
  ELSE [1 .. s.region.pieces -> {NoHit} \cup (0 .. FractionSteps)]

region_step(s, hits) ==
  CASE s.pc = "detect_conflicts" -> region_vicinity(s)
    [] s.pc = "time_window" -> region_time_window(s)
    [] s.pc = "iterators" -> region_iterators(s)
    [] s.pc = "loop" -> region_loop(s, hits)
    [] OTHER -> s

\* the second call, when there is one, sees the same answers
region_mirror_step(hits) ==
  IF mirror = NoMirror THEN mirror
  ELSE IF mirror.call.pc # region_call.pc THEN mirror
  ELSE [mirror EXCEPT !.call = region_step(mirror.call, hits)]

RegionInit ==
  /\ NewReservationSystem
  /\ Unobserved
  /\ NoBoundingBox
  /\ NoDetection
  /\ \E profile \in Profiles, trajectory \in ValidTrajectorySet,
        region \in Regions, conflicts \in {Null, List(<<Stale>>)} :
       region_call = RegionEntry(profile, trajectory, region, conflicts)

RegionBecomes(next, hits) ==
  /\ region_call' = next
  /\ mirror' = region_mirror_step(hits)
  /\ UNCHANGED <<box_vars, observe_vars>>
  /\ UNCHANGED <<sched_vars, trajectory_a, trajectory_b, input_profile_a,
                 input_profile_b, output_conflicts, pc, profile_a, profile_b,
                 range_a, range_b, a_it, b_it, result, detected>>

RegionVicinity ==
  /\ region_call.pc = "detect_conflicts"
  /\ RegionBecomes(region_vicinity(region_call), <<>>)

RegionTimeWindow ==
  /\ region_call.pc = "time_window"
  /\ RegionBecomes(region_time_window(region_call), <<>>)

RegionIterators ==
  /\ region_call.pc = "iterators"
  /\ RegionBecomes(region_iterators(region_call), <<>>)

RegionLoop ==
  /\ region_call.pc = "loop"
  /\ \E hits \in region_answers(region_call) :
       RegionBecomes(region_loop(region_call, hits), hits)

RegionNext ==
  \/ RegionVicinity
  \/ RegionTimeWindow
  \/ RegionIterators
  \/ RegionLoop

RegionSpec == RegionInit /\ [][RegionNext]_vars

\* the same profile with its vicinity set to its footprint when it has none
WithVicinity(profile) ==
  IF profile.vicinity = NoShape
  THEN [footprint |-> profile.footprint, vicinity |-> profile.footprint]
  ELSE profile

\* between on profiles of which one has no vicinity, next to between on the
\* same profiles with the vicinity set
NormaliseBetweenInit ==
  /\ NewReservationSystem
  /\ Unobserved
  /\ NoBoundingBox
  /\ NoRegionTest
  /\ \E ta \in Trajectories, tb \in Trajectories,
        pa \in Profiles, pb \in Profiles,
        conflicts \in {Null, List(<<Stale>>)} :
       /\ pa.vicinity = NoShape \/ pb.vicinity = NoShape
       /\ trajectory_a = ta
       /\ trajectory_b = tb
       /\ input_profile_a = pa
       /\ input_profile_b = pb
       /\ output_conflicts = conflicts
       /\ range_a = ta
       /\ range_b = tb
       /\ mirror = [relation |-> "normalise", shift |-> 0,
                    call |-> Entry(WithVicinity(pa), ta,
                                   WithVicinity(pb), tb, conflicts)]
  /\ pc = "between"
  /\ profile_a = [footprint |-> NoShape, vicinity |-> NoShape]
  /\ profile_b = [footprint |-> NoShape, vicinity |-> NoShape]
  /\ a_it = 0
  /\ b_it = 0
  /\ result = Pending
  /\ detected = <<>>

\* detect_conflicts on a profile without vicinity, next to detect_conflicts
\* on the same profile with the vicinity set
NormaliseRegionInit ==
  /\ NewReservationSystem
  /\ Unobserved
  /\ NoBoundingBox
  /\ trajectory_a = <<>>
  /\ trajectory_b = <<>>
  /\ input_profile_a = [footprint |-> NoShape, vicinity |-> NoShape]
  /\ input_profile_b = [footprint |-> NoShape, vicinity |-> NoShape]
  /\ output_conflicts = Null
  /\ pc = "idle"
  /\ profile_a = [footprint |-> NoShape, vicinity |-> NoShape]
  /\ profile_b = [footprint |-> NoShape, vicinity |-> NoShape]
  /\ range_a = <<>>
  /\ range_b = <<>>
  /\ a_it = 0
  /\ b_it = 0
  /\ result = Pending
  /\ detected = <<>>
  /\ \E profile \in Profiles, trajectory \in ValidTrajectorySet,
        region \in Regions, conflicts \in {Null, List(<<Stale>>)} :
       /\ profile.vicinity = NoShape
       /\ region_call = RegionEntry(profile, trajectory, region, conflicts)
       /\ mirror = [relation |-> "normalise", shift |-> 0,
                    call |-> RegionEntry(WithVicinity(profile), trajectory,
                                         region, conflicts)]

NormaliseInit == NormaliseBetweenInit \/ NormaliseRegionInit

NormaliseNext == BetweenNext \/ RegionNext

NormaliseSpec == NormaliseInit /\ [][NormaliseNext]_vars

\* the trajectory translated in time by d
Shifted(trajectory, d) == [k \in DOMAIN trajectory |-> trajectory[k] + d]

Shifts == (-MaxShift .. MaxShift) \ {0}

\* between on two trajectories, next to between on both translated by d
ShiftInit ==
  /\ NewReservationSystem
  /\ Unobserved
  /\ NoBoundingBox
  /\ NoRegionTest
  /\ \E ta \in Trajectories, tb \in Trajectories,
        pa \in Profiles, pb \in Profiles,
        conflicts \in {Null, List(<<Stale>>)}, d \in Shifts :
       /\ trajectory_a = ta
       /\ trajectory_b = tb
       /\ input_profile_a = pa
       /\ input_profile_b = pb
       /\ output_conflicts = conflicts
       /\ range_a = ta
       /\ range_b = tb
       /\ mirror = [relation |-> "shift", shift |-> d,
                    call |-> Entry(pa, Shifted(ta, d),
                                   pb, Shifted(tb, d), conflicts)]
  /\ pc = "between"
  /\ profile_a = [footprint |-> NoShape, vicinity |-> NoShape]
  /\ profile_b = [footprint |-> NoShape, vicinity |-> NoShape]
  /\ a_it = 0
  /\ b_it = 0
  /\ result = Pending
  /\ detected = <<>>

ShiftSpec == ShiftInit /\ [][BetweenNext]_vars

(***************************************************************************)
(* Bounding boxes of spline segments (DetectConflict.cpp, 165-301).        *)
(* Lengths are whole numbers of 2 mm; a real number is a fraction          *)
(* num / den with den > 0, so that the arithmetic is exact.                *)
(***************************************************************************)
\* 1e-4 (square metres) in units of 2 mm squared
DiscriminantTolerance == 25

Real(num, den) ==
  IF den < 0 THEN [num |-> -num, den |-> -den] ELSE [num |-> num, den |-> den]

\* infinity and -infinity are the fractions 1 / 0 and -1 / 0
Less(p, q) ==
  IF p.den = 0 /\ q.den = 0 THEN p.num < q.num
  ELSE p.num * q.den < q.num * p.den

LessEq(p, q) ==
  IF p.den = 0 /\ q.den = 0 THEN p.num <= q.num
  ELSE p.num * q.den <= q.num * p.den

\* the real number p plus the whole number n
Plus(p, n) == [num |-> p.num + n * p.den, den |-> p.den]

Abs(n) == IF n < 0 THEN -n ELSE n

\* coeffs[3] t^3 + coeffs[2] t^2 + coeffs[1] t + coeffs[0] at the real time t
evaluate_spline(coeffs, t) ==
  Real(coeffs[3] * t.num * t.num * t.num
         + coeffs[2] * t.num * t.num * t.den
         + coeffs[1] * t.num * t.den * t.den
         + coeffs[0] * t.den * t.den * t.den,
       t.den * t.den * t.den)

\* the discriminant D of the derivative of the spline
discriminant(coeffs) ==
  4 * coeffs[2] * coeffs[2] - 12 * coeffs[3] * coeffs[1]

IsSquare(n) == \E r \in 0 .. n : r * r = n

\* std::sqrt of a perfect square
sqrt(n) == CHOOSE r \in 0 .. n : r * r = n

\* the values get_local_extrema collects, in the order it collects them; a
\* whole number of units is below 1e-12 in magnitude only when it is 0
extrema_candidates(coeffs) ==
  LET boundary == <<evaluate_spline(coeffs, Real(0, 1)),
                    evaluate_spline(coeffs, Real(1, 1))>>
      D == discriminant(coeffs)
  IN  IF coeffs[3] = 0
        THEN IF coeffs[2] # 0
               THEN Append(boundary,
                      evaluate_spline(coeffs,
                                      Real(-coeffs[1], 2 * coeffs[2])))
               ELSE boundary
      ELSE IF Abs(D) < DiscriminantTolerance
        THEN Append(boundary,
               evaluate_spline(coeffs, Real(-2 * coeffs[2], 6 * coeffs[3])))
      ELSE IF D < 0
        THEN boundary
      ELSE boundary \o
             <<evaluate_spline(coeffs,
                 Real(-2 * coeffs[2] + sqrt(D), 6 * coeffs[3])),
               evaluate_spline(coeffs,
                 Real(-2 * coeffs[2] - sqrt(D), 6 * coeffs[3]))>>

\* the parameters t at which get_local_extrema evaluates the spline besides
\* 0 and 1 (lines 204, 215, 227 and 228)
stationary_points(coeffs) ==
  LET D == discriminant(coeffs)
  IN  IF coeffs[3] = 0
        THEN IF coeffs[2] # 0
               THEN {Real(-coeffs[1], 2 * coeffs[2])}
               ELSE {}
      ELSE IF Abs(D) < DiscriminantTolerance
        THEN {Real(-2 * coeffs[2], 6 * coeffs[3])}
      ELSE IF D < 0
        THEN {}
      ELSE {Real(-2 * coeffs[2] + sqrt(D), 6 * coeffs[3]),
            Real(-2 * coeffs[2] - sqrt(D), 6 * coeffs[3])}

\* std::min_element, std::max_element: the first least, the first greatest
min_element(values) ==
  values[CHOOSE i \in DOMAIN values :
           /\ \A j \in DOMAIN values : LessEq(values[i], values[j])
           /\ \A j \in 1 .. i - 1 : Less(values[i], values[j])]

max_element(values) ==
  values[CHOOSE i \in DOMAIN values :
           /\ \A j \in DOMAIN values : LessEq(values[j], values[i])
           /\ \A j \in 1 .. i - 1 : Less(values[j], values[i])]

\* extrema[0] and extrema[1], here at 1 and 2
get_local_extrema(coeffs) ==
  <<min_element(extrema_candidates(coeffs)),
    max_element(extrema_candidates(coeffs))>>

\* the spline's params.coeffs[0] (x) and params.coeffs[1] (y), here at 1 and 2
get_bounding_box(spline) ==
  LET extrema_x == get_local_extrema(spline[1])
      extrema_y == get_local_extrema(spline[2])
  IN  [min |-> <<extrema_x[1], extrema_y[1]>>,
       max |-> <<extrema_x[2], extrema_y[2]>>]

adjust_bounding_box(input, value) ==
  [min |-> <<Plus(input.min[1], -value), Plus(input.min[2], -value)>>,
   max |-> <<Plus(input.max[1], value), Plus(input.max[2], value)>>]

Coefficients == [0 .. 3 -> -MaxCoefficient .. MaxCoefficient]

\* the square root of the discriminant, where it is taken, is a whole number
RationalExtrema(coeffs) ==
  (coeffs[3] # 0 /\ discriminant(coeffs) >= DiscriminantTolerance)
    => IsSquare(discriminant(coeffs))

Splines ==
  {spline \in Coefficients \X Coefficients :
     RationalExtrema(spline[1]) /\ RationalExtrema(spline[2])}

\* the characteristic lengths of the shapes
Lengths == 0 .. MaxLength

\* get_bounding_profile is entered with a spline
BoundingInit ==
  /\ NewReservationSystem
  /\ Unobserved
  /\ NoDetection
  /\ NoRegionTest
  /\ \E spline \in Splines :
       box_call = [pc |-> "get_bounding_box", spline |-> spline]

GetBoundingBox ==
  /\ box_call.pc = "get_bounding_box"
  /\ box_call' = [pc |-> "adjust_bounding_box",
                  spline |-> box_call.spline,
                  base_box |-> get_bounding_box(box_call.spline)]
  /\ UNCHANGED <<sched_vars, between_vars, region_vars, observe_vars>>

\* the box of a shape that is present, of characteristic length value
AdjustBoundingBox ==
  /\ box_call.pc = "adjust_bounding_box"
  /\ \E value \in Lengths :
       box_call' = [pc |-> "done",
                    spline |-> box_call.spline,
                    base_box |-> box_call.base_box,
                    value |-> value,
                    box |-> adjust_bounding_box(box_call.base_box, value)]
  /\ UNCHANGED <<sched_vars, between_vars, region_vars, observe_vars>>

BoundingNext == GetBoundingBox \/ AdjustBoundingBox

BoundingSpec == BoundingInit /\ [][BoundingNext]_vars

(***************************************************************************)
(* Broadphase: the boxes of two splines and the two overlap tests of a     *)
(* pass of detect_invasion (lines 704-733).                                *)
(***************************************************************************)
inf == [num |-> 1, den |-> 0]

minus_inf == [num |-> -1, den |-> 0]

\* a box that overlaps no other
void_box == [min |-> <<inf, inf>>, max |-> <<minus_inf, minus_inf>>]

\* a shape of a profile: absent, or present with its characteristic length
AbsentShape == [kind |-> "nullptr"]

Shape(length) == [kind |-> "shape", length |-> length]

\* the shapes of a profile: a point or a disc of the greatest length
Shapes == {AbsentShape, Shape(0), Shape(MaxLength)}

BoxProfiles == [footprint : Shapes, vicinity : Shapes]

\* get_bounding_profile from its base_box on (lines 290-300)
get_bounding_profile(base_box, profile) ==
  [footprint |->
     IF profile.footprint # AbsentShape
     THEN adjust_bounding_box(base_box, profile.footprint.length)
     ELSE void_box,
   vicinity |->
     IF profile.vicinity # AbsentShape
     THEN adjust_bounding_box(base_box, profile.vicinity.length)
     ELSE void_box]

\* Plausible slip: boxes that only touch are taken as apart.
overlap_strict(box_a, box_b) ==
  ~ \E i \in 1 .. 2 :
      \/ LessEq(box_a.max[i], box_b.min[i])
      \/ LessEq(box_b.max[i], box_a.min[i])

overlap(box_a, box_b) ==
  ~ \E i \in 1 .. 2 :
      \/ Less(box_a.max[i], box_b.min[i])
      \/ Less(box_b.max[i], box_a.min[i])

\* what get_bounding_box returns: per axis a least and a greatest value
Intervals ==
  {i \in (0 .. MaxCoordinate) \X (0 .. MaxCoordinate) : i[1] <= i[2]}

BaseBoxes ==
  {[min |-> <<Real(x[1], 1), Real(y[1], 1)>>,
    max |-> <<Real(x[2], 1), Real(y[2], 1)>>] : x \in Intervals, y \in Intervals}

\* a pass of detect_invasion has the boxes of its two splines: line 704,
\* past line 288 in both calls of get_bounding_profile
BroadphaseInit ==
  /\ NewReservationSystem
  /\ NoDetection
  /\ NoRegionTest
  /\ observed = NoObservation
  /\ \E base_a \in BaseBoxes, base_b \in BaseBoxes,
        pa \in BoxProfiles, pb \in BoxProfiles, complement \in BOOLEAN :
       box_call = [pc |-> "get_bounding_profile",
                   base_a |-> base_a, base_b |-> base_b,
                   profile_a |-> pa, profile_b |-> pb,
                   test_complement |-> complement]

\* lines 704-705
GetBoundingProfiles ==
  /\ box_call.pc = "get_bounding_profile"
  /\ box_call' =
       [pc |-> "overlap",
        base_a |-> box_call.base_a, base_b |-> box_call.base_b,
        profile_a |-> box_call.profile_a, profile_b |-> box_call.profile_b,
        test_complement |-> box_call.test_complement,
        bound_a |-> get_bounding_profile(box_call.base_a, box_call.profile_a),
        bound_b |-> get_bounding_profile(box_call.base_b, box_call.profile_b)]
  /\ UNCHANGED <<sched_vars, between_vars, region_vars, observe_vars>>

\* lines 707-713: check_collision is called when the boxes overlap
OverlapFootprintVicinity ==
  /\ box_call.pc = "overlap"
  /\ box_call' =
       [pc |-> "complement",
        base_a |-> box_call.base_a, base_b |-> box_call.base_b,
        profile_a |-> box_call.profile_a, profile_b |-> box_call.profile_b,
        test_complement |-> box_call.test_complement,
        bound_a |-> box_call.bound_a, bound_b |-> box_call.bound_b,
        check_collision |->
          <<overlap(box_call.bound_a.footprint, box_call.bound_b.vicinity)>>]
  /\ UNCHANGED <<sched_vars, between_vars, region_vars, observe_vars>>

\* lines 727-733
OverlapVicinityFootprint ==
  /\ box_call.pc = "complement"
  /\ box_call' =
       [box_call EXCEPT
          !.pc = "done",
          !.check_collision =
            Append(@, /\ box_call.test_complement
                      /\ overlap(box_call.bound_a.vicinity,
                                 box_call.bound_b.footprint))]
  /\ UNCHANGED <<sched_vars, between_vars, region_vars, observe_vars>>

BroadphaseNext ==
  \/ GetBoundingProfiles
  \/ OverlapFootprintVicinity
  \/ OverlapVicinityFootprint

BroadphaseSpec == BroadphaseInit /\ [][BroadphaseNext]_vars

(***************************************************************************)
(* Conflict engine: what the claims speak of                               *)
(***************************************************************************)
Returned_between == pc = "done"

ValidTrajectories == Len(trajectory_a) >= 2 /\ Len(trajectory_b) >= 2

\* the profiles as the caller passed them
BothFootprintsAbsent ==
  input_profile_a.footprint = NoShape /\ input_profile_b.footprint = NoShape

Shapeless(profile) ==
  profile.footprint = NoShape /\ profile.vicinity = NoShape

\* C9, first half: between fails with InvalidTrajectory whenever either
\* trajectory has fewer than 2 waypoints, whatever the profiles and the time
\* ranges are, so the size test precedes every exit that returns none.
C9_InvalidTrajectoryFirst ==
  (Returned_between /\ ~ ValidTrajectories) =>
    result.kind = "InvalidTrajectory"

\* C9, second half: between fails in no other way; with valid trajectories
\* it returns none or a time.
C9_NoOtherFailure ==
  (Returned_between /\ ValidTrajectories) => result.kind \in {"none", "some"}

\* C9: between fails with InvalidTrajectory whenever either trajectory has
\* fewer than 2 waypoints, before every exit that returns none, and
\* InvalidTrajectory is the only failure of between: every other outcome
\* without a conflict is none.
C9_OnlyInvalidTrajectory ==
  C9_InvalidTrajectoryFirst /\ C9_NoOtherFailure

\* C10: for valid trajectories, between returns none whenever both footprints
\* are absent, and whenever either profile has neither a vicinity nor a
\* footprint, whatever the trajectories are.
C10_EmptyGeometry ==
  (/\ Returned_between
   /\ ValidTrajectories
   /\ \/ BothFootprintsAbsent
      \/ Shapeless(input_profile_a)
      \/ Shapeless(input_profile_b)) => result = None

\* between has returned none for trajectories that overlap in time, on
\* profiles that both have a vicinity and no footprint
C10_Witness ==
  /\ Returned_between
  /\ ValidTrajectories
  /\ have_time_overlap(trajectory_a, trajectory_b)
  /\ BothFootprintsAbsent
  /\ input_profile_a.vicinity # NoShape
  /\ input_profile_b.vicinity # NoShape
  /\ result = None

\* the two trajectories share no instant
DisjointInTime ==
  \/ trajectory_a[Len(trajectory_a)] < trajectory_b[1]
  \/ trajectory_b[Len(trajectory_b)] < trajectory_a[1]

\* one trajectory starts at the instant the other finishes
TouchInTime ==
  \/ trajectory_a[Len(trajectory_a)] = trajectory_b[1]
  \/ trajectory_b[Len(trajectory_b)] = trajectory_a[1]

\* neither early return on absent geometry applies to the profiles passed in
GeometryPresent ==
  /\ ~ BothFootprintsAbsent
  /\ ~ Shapeless(input_profile_a)
  /\ ~ Shapeless(input_profile_b)

\* C11: if trajectory A finishes strictly before B starts, or B strictly
\* before A starts, between returns none; trajectories that only touch are
\* not pruned by the time test: the call goes on to align its iterators.
C11_TimeOverlapNecessity ==
  (Returned_between /\ ValidTrajectories) =>
    /\ DisjointInTime => result = None
    /\ (TouchInTime /\ GeometryPresent) => (a_it >= 2 /\ b_it >= 2)

\* between has returned none for disjoint trajectories with geometry on
\* both sides
C11_Witness ==
  /\ Returned_between
  /\ ValidTrajectories
  /\ DisjointInTime
  /\ GeometryPresent
  /\ result = None

\* both calls have returned
BothReturned ==
  /\ mirror # NoMirror
  /\ Returned_between
  /\ mirror.call.pc = "done"

\* the two calls take the same steps, so that they ask about the same spline
\* pairs
InStep ==
  mirror # NoMirror =>
    mirror.call.pc = (IF pc = "idle" THEN region_call.pc ELSE pc)

\* C12: for every valid input, between(A, TA, B, TB) returns what
\* between(B, TB, A, TA) returns: none in both, or the same time in both,
\* also when a vicinity differs from its footprint and both pairs of shapes
\* are tested within a spline pair.
C12_Symmetry ==
  (BothReturned /\ ValidTrajectories) => mirror.call.result = result

\* the extended form: the caller passed a list
ExtendedForm == output_conflicts # Null

\* the call returned a value rather than failing
ReturnedValue == Returned_between /\ result.kind \in {"none", "some"}

\* C13: the time between returns is the earliest of the conflict times found
\* over the whole pair of trajectories: no conflict found on a spline pair,
\* by either pair of shapes, in approach or invasion mode, is strictly
\* earlier than the time returned.
C13_EarliestTime ==
  (Returned_between /\ result.kind = "some") =>
    \A k \in 1 .. Len(detected) : result.time <= detected[k].time

\* C14: in the extended form the list is cleared and then holds every
\* conflict found during the call, in the order found: on return it has no
\* entry from before the call, and it has the conflicts of approach mode as
\* well as those of a later pass in invasion mode.
C14_ListHoldsAllDetected ==
  (ReturnedValue /\ ExtendedForm) => output_conflicts.list = detected

\* C15: in the extended form the value returned is the time of the first
\* entry of the list, and it is none exactly when the list is empty on
\* return, on every exit path.
C15_FirstEntryReturned ==
  (ReturnedValue /\ ExtendedForm) =>
    /\ result = None <=> output_conflicts.list = <<>>
    /\ result.kind = "some" => result.time = output_conflicts.list[1].time

\* a profile with a vicinity and no footprint, next to one with a footprint
FootprintOnlyAbsent(p, q) ==
  /\ p.footprint = NoShape
  /\ p.vicinity # NoShape
  /\ q.footprint # NoShape

\* the step the call is about to take runs check_overlap
AtStaticOverlap ==
  \/ pc = "close_start"
  \/ /\ pc = "detect_approach"
     /\ a_it <= Len(range_a)
     /\ b_it <= Len(range_b)

\* C16: an absent footprint is empty geometry, never an error: for a profile
\* with a vicinity and no footprint, the other having a footprint, between
\* runs no static-overlap test on the absent shape, in the initial-closeness
\* test and in approach mode, and the call does not fail on it.
C16_AbsentFootprintNotEvaluated ==
  (\/ FootprintOnlyAbsent(input_profile_a, input_profile_b)
   \/ FootprintOnlyAbsent(input_profile_b, input_profile_a)) =>
    /\ AtStaticOverlap => "undefined" \notin check_overlap(profile_a, profile_b)
    /\ result # Undefined

(***************************************************************************)
(* Region against trajectory: what the claims speak of                     *)
(***************************************************************************)
\* instant t lies in the time span of the trajectory and in the window of
\* the region
InWindow(c, t) ==
  /\ c.trajectory[1] <= t
  /\ t <= c.trajectory[Len(c.trajectory)]
  /\ c.region.lower_time_bound # <<>> => c.region.lower_time_bound[1] <= t
  /\ c.region.upper_time_bound # <<>> => t <= c.region.upper_time_bound[1]

WindowEmpty(c) == \A t \in 0 .. MaxInstant : ~ InWindow(c, t)

\* the instants of the segment that ends at waypoint i
SegmentInstants(c, i) == c.trajectory[i - 1] .. c.trajectory[i]

\* C18: the trajectory is tested only inside the intersection W of its time
\* span with the window of the region: if W is empty there is no conflict
\* and nothing is tested, every segment tested intersects W and is tested on
\* exactly its part inside W, and every conflict time reported lies in W.
C18_RegionWindow ==
  region_call.pc # "idle" =>
    LET c == region_call
    IN  /\ (c.pc = "done" /\ WindowEmpty(c)) =>
             (c.result = Conflicting(FALSE) /\ c.tested = <<>>)
        /\ \A k \in 1 .. Len(c.tested) :
             LET w == c.tested[k]
             IN  /\ w.it \in 2 .. Len(c.trajectory)
                 /\ \E t \in SegmentInstants(c, w.it) : InWindow(c, t)
                 /\ \A t \in SegmentInstants(c, w.it) :
                      InWindow(c, t) <=> (w.start <= t /\ t <= w.finish)
        /\ (c.pc \in {"loop", "done"} /\ c.tested # <<>>
              /\ c.output_conflicts # Null) =>
             \A j \in 1 .. Len(c.output_conflicts.list) :
               InWindow(c, c.output_conflicts.list[j].time)

\* a call in the extended form has returned conflicts, on a trajectory of
\* three waypoints that starts before the window and ends after it
C18_Witness ==
  /\ region_call.pc = "done"
  /\ Len(region_call.trajectory) = 3
  /\ region_call.region.lower_time_bound # <<>>
  /\ region_call.region.upper_time_bound # <<>>
  /\ region_call.trajectory[1] < region_call.region.lower_time_bound[1]
  /\ region_call.region.upper_time_bound[1] < region_call.trajectory[3]
  /\ Len(region_call.tested) = 2
  /\ region_call.output_conflicts # Null
  /\ region_call.result = Conflicting(TRUE)

\* both calls of detect_conflicts have returned
BothRegionReturned ==
  /\ mirror # NoMirror
  /\ region_call.pc = "done"
  /\ mirror.call.pc = "done"

\* C17: a profile whose vicinity is absent behaves, in between and in the
\* region variant, exactly like the same profile with its vicinity set to its
\* footprint: the two calls take the same steps, return the same value and
\* leave the same list.
C17_AbsentVicinityIsFootprint ==
  /\ InStep
  /\ BothReturned =>
       /\ mirror.call.result = result
       /\ mirror.call.output_conflicts = output_conflicts
  /\ BothRegionReturned =>
       /\ mirror.call.result = region_call.result
       /\ mirror.call.output_conflicts = region_call.output_conflicts

\* between has returned a time for a profile with a footprint and no vicinity
C17_Witness ==
  /\ BothReturned
  /\ input_profile_a.footprint # NoShape
  /\ input_profile_a.vicinity = NoShape
  /\ mirror.call.input_profile_a.vicinity = input_profile_a.footprint
  /\ result.kind = "some"

\* the value v, later by d when it is a time
Later(v, d) == IF v.kind = "some" THEN Time(v.time + d) ELSE v

C19_TimeShiftShortForm ==
  (BothReturned /\ ValidTrajectories /\ mirror.relation = "shift"
     /\ ~ ExtendedForm) =>
    mirror.call.result = Later(result, mirror.shift)

\* the same, for the conflicts found during the two calls
C19_TimeShiftDetected ==
  (BothReturned /\ ValidTrajectories /\ mirror.relation = "shift") =>
    /\ Len(mirror.call.detected) = Len(detected)
    /\ \A k \in 1 .. Len(detected) :
         mirror.call.detected[k].time = detected[k].time + mirror.shift

\* the instants k / Samples of the spline's parameter, from start to finish
SampleTimes == {Real(k, Samples) : k \in 0 .. Samples}

\* on the axis, position(t) - l and position(t) + l lie inside the box
Inside(box, axis, position, l) ==
  /\ LessEq(box.min[axis], Plus(position, -l))
  /\ LessEq(Plus(position, l), box.max[axis])

\* C20: for every spline segment and characteristic length l, at every
\* sampled t from start to finish the points position(t) - l and
\* position(t) + l on the x axis and on the y axis lie inside the inflated
\* bounding box.
C20_BoundingSoundness ==
  box_call.pc = "done" =>
    \A axis \in 1 .. 2, t \in SampleTimes :
      Inside(box_call.box, axis,
             evaluate_spline(box_call.spline[axis], t), box_call.value)

\* the derivative has two real roots that the tolerance merges into one
MergedRoots(coeffs) ==
  /\ coeffs[3] # 0
  /\ discriminant(coeffs) > 0
  /\ discriminant(coeffs) < DiscriminantTolerance

\* the same, for splines whose roots the tolerance does not merge
C20_SoundUnlessMerged ==
  (/\ box_call.pc = "done"
   /\ ~ MergedRoots(box_call.spline[1])
   /\ ~ MergedRoots(box_call.spline[2])) =>
    \A axis \in 1 .. 2, t \in SampleTimes :
      Inside(box_call.box, axis,
             evaluate_spline(box_call.spline[axis], t), box_call.value)

\* the iterators have been seeded and nothing else has been done with them
Seeded == pc = "close_start"

\* instant t lies in the segment of the trajectory that ends at waypoint it
SegmentContains(trajectory, it, t) ==
  /\ it \in 2 .. Len(trajectory)
  /\ trajectory[it - 1] <= t
  /\ t <= trajectory[it]

\* C21: with start times s_a and s_b: if s_a < s_b, a starts at the segment
\* of A that contains s_b and b at B's second waypoint; symmetrically if
\* s_b < s_a; if they are equal both start at their second waypoint. So the
\* first spline pair is concurrent and the initial-closeness test looks at
\* max(s_a, s_b).
C21_IteratorAlignment ==
  Seeded =>
    LET s_a == trajectory_a[1]
        s_b == trajectory_b[1]
    IN  /\ s_a < s_b =>
             SegmentContains(trajectory_a, a_it, s_b) /\ b_it = 2
        /\ s_b < s_a =>
             SegmentContains(trajectory_b, b_it, s_a) /\ a_it = 2
        /\ s_a = s_b => (a_it = 2 /\ b_it = 2)
        /\ Max(trajectory_a[a_it - 1], trajectory_b[b_it - 1])
             <= Min(trajectory_a[a_it], trajectory_b[b_it])
        /\ close_start_time(Call) = Max(s_a, s_b)

\* trajectory_a starts first and a was sought past its second waypoint
C21_Witness ==
  /\ Seeded
  /\ trajectory_a[1] < trajectory_b[1]
  /\ a_it > 2
  /\ b_it = 2

\* the step just taken is the initial-closeness test, past the early exits
Dispatched == observed.kind = "on" /\ observed.before.pc = "close_start"

\* C22: after the early exits, between enters approach mode iff the static
\* overlap test of (footprint_a, vicinity_b) or (vicinity_a, footprint_b)
\* holds at the aligned start time, and otherwise enters invasion mode;
\* exactly one of the two modes is entered.
C22_ModeDispatch ==
  Dispatched =>
    /\ pc \in {"detect_approach", "detect_invasion"}
    /\ pc = "detect_approach" <=> observed.ans.close = "overlap"

\* the same, for profiles that both hold a footprint
C22_ModeDispatchWithFootprints ==
  (/\ Dispatched
   /\ input_profile_a.footprint # NoShape
   /\ input_profile_b.footprint # NoShape) =>
    /\ pc \in {"detect_approach", "detect_invasion"}
    /\ pc = "detect_approach" <=> observed.ans.close = "overlap"

\* the step just taken started in one of the two loops
InLoop ==
  /\ observed.kind = "on"
  /\ observed.before.pc \in {"invasion_loop", "detect_approach"}

\* ... with both iterators short of the end, so that it examined a pair
ExaminedPair ==
  /\ InLoop
  /\ observed.before.a_it <= Len(observed.before.range_a)
  /\ observed.before.b_it <= Len(observed.before.range_b)

\* ... and went through the whole loop body: the call neither returned nor
\* restarted on sliced trajectories
CompletedPass ==
  /\ ExaminedPair
  /\ pc # "done"
  /\ range_a = observed.before.range_a
  /\ range_b = observed.before.range_b

\* C23: after each spline pair, in invasion and in approach mode, exactly
\* the iterators whose spline finishes at t1 = min(finish_a, finish_b) are
\* advanced, both when tied and only the earlier-finishing one otherwise,
\* and the loop ends as soon as either iterator is at its trajectory's end.
C23_LockStepAdvance ==
  /\ CompletedPass =>
       LET before == observed.before
           finish_a == before.range_a[before.a_it]
           finish_b == before.range_b[before.b_it]
           t1 == Min(finish_a, finish_b)
       IN  /\ a_it = before.a_it + (IF finish_a = t1 THEN 1 ELSE 0)
           /\ b_it = before.b_it + (IF finish_b = t1 THEN 1 ELSE 0)
  /\ (InLoop /\ ~ ExaminedPair) => pc = "done"

\* a pass of approach mode advanced b alone, its spline finishing first
C23_Witness ==
  /\ CompletedPass
  /\ observed.before.pc = "detect_approach"
  /\ a_it = observed.before.a_it
  /\ b_it = observed.before.b_it + 1
  /\ b_it <= Len(range_b)

\* the call is at the head of a loop with a spline pair to examine
AtPair ==
  /\ pc \in {"invasion_loop", "detect_approach"}
  /\ a_it <= Len(range_a)
  /\ b_it <= Len(range_b)

\* C24: every spline pair the engine examines is concurrent: at every
\* iteration of invasion and approach mode, also after a hand-off from
\* approach to invasion and on sliced trajectories,
\* t0 = max(start_a, start_b) <= t1 = min(finish_a, finish_b).
C24_PairsConcurrent ==
  AtPair =>
    /\ a_it >= 2
    /\ b_it >= 2
    /\ Max(range_a[a_it - 1], range_b[b_it - 1])
         <= Min(range_a[a_it], range_b[b_it])

\* invasion mode is at the second pair of trajectories sliced by approach mode
C24_Witness ==
  /\ AtPair
  /\ pc = "invasion_loop"
  /\ range_a # trajectory_a
  /\ range_b # trajectory_b
  /\ a_it + b_it > 4

\* the segments of the two trajectories, counted together
TotalSegments == (Len(trajectory_a) - 1) + (Len(trajectory_b) - 1)

\* the step just taken was one of invasion mode
InInvasion ==
  /\ observed.kind = "on"
  /\ observed.before.pc \in {"detect_invasion", "invasion_loop"}

\* C25: every detection call terminates: each pass of the invasion and
\* approach loops advances at least one of the two iterators, approach mode
\* hands off to invasion mode at most once in a call, invasion mode never
\* goes back to approach mode, the call can always take its next step until
\* it has returned, and so the spline pairs examined are at most as many as
\* the segments of the two trajectories together.
C25_Terminates ==
  /\ CompletedPass =>
       a_it + b_it > observed.before.a_it + observed.before.b_it
  /\ observed.kind = "on" => observed.handoffs <= 1
  /\ InInvasion => pc \in {"invasion_loop", "done"}
  /\ (observed.kind = "on" /\ ValidTrajectories) =>
       observed.examined <= TotalSegments
  /\ pc \notin {"done", "idle"} => ENABLED BetweenNext

\* the call has returned after a hand-off, having examined as many pairs as
\* there are segments
C25_Witness ==
  /\ observed.kind = "on"
  /\ pc = "done"
  /\ observed.handoffs = 1
  /\ observed.examined = TotalSegments
  /\ TotalSegments >= 3

\* the same as a liveness property of a call that is not suspended
C25_EventuallyReturns == <>(pc = "done")

\* the instants at which both trajectories are under way
CommonFrom == Max(trajectory_a[1], trajectory_b[1])
CommonTo == Min(trajectory_a[Len(trajectory_a)], trajectory_b[Len(trajectory_b)])

\* the window [t0, t1] of the spline pair examined in the step just taken
PairFrom ==
  Max(observed.before.range_a[observed.before.a_it - 1],
      observed.before.range_b[observed.before.b_it - 1])
PairTo ==
  Min(observed.before.range_a[observed.before.a_it],
      observed.before.range_b[observed.before.b_it])

\* the conflicts found during the step just taken
FoundInStep == {k \in 1 .. Len(detected) : k > observed.before.found}

\* C26: every conflict time between reports, returned or listed, lies in
\* the window [t0, t1] of the spline pair it was found in, in invasion and
\* in approach mode, and hence in
\* [max(TA.start, TB.start), min(TA.finish, TB.finish)].
C26_TimesInWindow ==
  /\ ExaminedPair =>
       \A k \in FoundInStep :
         PairFrom <= detected[k].time /\ detected[k].time <= PairTo
  /\ (Returned_between /\ ValidTrajectories) =>
       /\ result.kind = "some" =>
            CommonFrom <= result.time /\ result.time <= CommonTo
       /\ output_conflicts # Null =>
            \A k \in 1 .. Len(output_conflicts.list) :
              /\ CommonFrom <= output_conflicts.list[k].time
              /\ output_conflicts.list[k].time <= CommonTo

\* the same, for the conflicts found during the call
C26_FoundTimesInWindow ==
  /\ ExaminedPair =>
       \A k \in FoundInStep :
         PairFrom <= detected[k].time /\ detected[k].time <= PairTo
  /\ ValidTrajectories =>
       \A k \in 1 .. Len(detected) :
         CommonFrom <= detected[k].time /\ detected[k].time <= CommonTo

\* the step just taken was a pass of invasion mode on a spline pair
InvasionPass == ExaminedPair /\ observed.before.pc = "invasion_loop"

\* vicinity and footprint are the same shape in both normalised profiles
VicinitiesAreFootprints ==
  /\ profile_a.vicinity = profile_a.footprint
  /\ profile_b.vicinity = profile_b.footprint

\* the conflicts found in the step are the contact of the first test, then
\* that of the second
FirstRecordedFirst ==
  LET first == compute_time(observed.ans.first, PairFrom, PairTo)
      second == compute_time(observed.ans.second, PairFrom, PairTo)
      found == observed.before.found
  IN  /\ (Hit(observed.ans.first) /\ Hit(observed.ans.second)) =>
           /\ Len(detected) >= found + 1
           /\ detected[found + 1].time = first
           /\ Len(detected) >= found + 2 => detected[found + 2].time = second
           /\ result.kind = "some" => result.time = first
      /\ (Hit(observed.ans.first) /\ ExtendedForm) =>
           (Len(detected) >= found + 1 /\ detected[found + 1].time = first)

\* C27: in invasion mode the complement test (vicinity_a against
\* footprint_b) is skipped exactly when vicinity equals footprint in both
\* normalised profiles and is made whenever a profile's vicinity differs
\* from its footprint; within one spline pair the result of
\* (footprint_a, vicinity_b) is recorded before that of the complement.
C27_ComplementTest ==
  InvasionPass =>
    /\ observed.ans.complement <=> ~ VicinitiesAreFootprints
    /\ FirstRecordedFirst

\* the same, for passes whose first test has not returned a contact
C27_ComplementTestReached ==
  (InvasionPass /\ ~ (Hit(observed.ans.first) /\ ~ ExtendedForm)) =>
    /\ observed.ans.complement <=> ~ VicinitiesAreFootprints
    /\ FirstRecordedFirst

\* on both axes a.max >= b.min and b.max >= a.min
MeetOnBothAxes(a, b) ==
  \A i \in 1 .. 2 : LessEq(b.min[i], a.max[i]) /\ LessEq(a.min[i], b.max[i])

\* the boxes of the shapes of the two profiles
BoxesOf(bound_a, bound_b) ==
  {bound_a.footprint, bound_a.vicinity, bound_b.footprint, bound_b.vicinity}

\* C28: overlap(a, b) holds iff on both axes a.max >= b.min and
\* b.max >= a.min; it is symmetric; a void box overlaps no box, another void
\* box included, so that in invasion mode the narrowphase is not run for a
\* pair with an absent shape.
C28_Broadphase ==
  /\ box_call.pc = "overlap" =>
       \A a \in BoxesOf(box_call.bound_a, box_call.bound_b),
          b \in BoxesOf(box_call.bound_a, box_call.bound_b) :
         /\ overlap(a, b) <=> MeetOnBothAxes(a, b)
         /\ overlap(a, b) <=> overlap(b, a)
         /\ (a = void_box \/ b = void_box) => ~ overlap(a, b)
  /\ box_call.pc \in {"complement", "done"} =>
       ((\/ box_call.profile_a.footprint = AbsentShape
         \/ box_call.profile_b.vicinity = AbsentShape)
          => ~ box_call.check_collision[1])
  /\ box_call.pc = "done" =>
       ((\/ box_call.profile_a.vicinity = AbsentShape
         \/ box_call.profile_b.footprint = AbsentShape)
          => ~ box_call.check_collision[2])

\* the pass ran the narrowphase on boxes that only touch, and skipped it for
\* the complement pair, which has an absent shape
C28_Witness ==
  /\ box_call.pc = "done"
  /\ box_call.check_collision[1]
  /\ box_call.bound_a.footprint.max[1] = box_call.bound_b.vicinity.min[1]
  /\ box_call.test_complement
  /\ box_call.profile_b.footprint = AbsentShape
  /\ box_call.profile_a.vicinity = AbsentShape

\* the parameter t lies in [0, 1]
InSegment(t) == LessEq(Real(0, 1), t) /\ LessEq(t, Real(1, 1))

\* p(0), p(1) and the values at the stationary points whose parameter lies
\* in [0, 1]
SegmentCandidates(coeffs) ==
  {evaluate_spline(coeffs, Real(0, 1)), evaluate_spline(coeffs, Real(1, 1))}
    \cup {evaluate_spline(coeffs, t) :
            t \in {u \in stationary_points(coeffs) : InSegment(u)}}

SameReal(p, q) == LessEq(p, q) /\ LessEq(q, p)

\* C29: per axis, p(0) and p(1) are always candidates and a stationary point
\* of the cubic is one only when its parameter lies in [0, 1]; the result is
\* (min, max) over those candidates, so that a stationary point outside
\* [0, 1] never widens the box.
C29_ExtremaWithinSegment ==
  box_call.pc \in {"adjust_bounding_box", "done"} =>
    \A axis \in 1 .. 2 :
      LET candidates == SegmentCandidates(box_call.spline[axis])
      IN  /\ \E v \in candidates : SameReal(v, box_call.base_box.min[axis])
          /\ \E v \in candidates : SameReal(v, box_call.base_box.max[axis])
          /\ \A v \in candidates :
               /\ LessEq(box_call.base_box.min[axis], v)
               /\ LessEq(v, box_call.base_box.max[axis])

\* the same without its last part: the box holds p(0), p(1) and the values
\* at the stationary points of [0, 1], and each bound is the value at 0, at 1
\* or at a stationary point, inside [0, 1] or not
C29_ExtremaOfAllStationaryPoints ==
  box_call.pc \in {"adjust_bounding_box", "done"} =>
    \A axis \in 1 .. 2 :
      LET coeffs == box_call.spline[axis]
          all == {evaluate_spline(coeffs, t) :
                    t \in {Real(0, 1), Real(1, 1)}
                            \cup stationary_points(coeffs)}
      IN  /\ \E v \in all : SameReal(v, box_call.base_box.min[axis])
          /\ \E v \in all : SameReal(v, box_call.base_box.max[axis])
          /\ \A v \in all :
               /\ LessEq(box_call.base_box.min[axis], v)
               /\ LessEq(v, box_call.base_box.max[axis])

\* the step just taken was a pass of approach mode on a spline pair
ApproachPass == ExaminedPair /\ observed.before.pc = "detect_approach"

\* a conflict of the pair examined in the step, at the pair's start time
ConflictAtPairStart ==
  [a |-> observed.before.a_it, b |-> observed.before.b_it, time |-> PairFrom]

\* C30: for each concurrent spline pair examined in approach mode, if the
\* distance differential is initially approaching, a conflict is recorded at
\* that pair's start time, and in the simple form that time is returned
\* immediately.
C30_InitiallyApproaching ==
  (ApproachPass /\ observed.ans.initially_approaching) =>
    /\ Len(detected) >= observed.before.found + 1
    /\ detected[observed.before.found + 1] = ConflictAtPairStart
    /\ ExtendedForm =>
         \E k \in 1 .. Len(output_conflicts.list) :
           output_conflicts.list[k] = ConflictAtPairStart
    /\ ~ ExtendedForm =>
         /\ pc = "done"
         /\ result = Time(PairFrom)
         /\ Len(detected) = observed.before.found + 1

\* the second pair of an approach was initially approaching, after the
\* trajectories' common start, and the call goes on with the conflict listed
C30_Witness ==
  /\ ApproachPass
  /\ observed.ans.initially_approaching
  /\ observed.examined >= 2
  /\ PairFrom > CommonFrom
  /\ ExtendedForm
  /\ pc = "detect_approach"
  /\ output_conflicts.list[Len(output_conflicts.list)] = ConflictAtPairStart

\* the simple form returned the start time of a later pair
C30_ReturnedAtPairStart ==
  /\ ApproachPass
  /\ observed.ans.initially_approaching
  /\ ~ ExtendedForm
  /\ PairFrom > CommonFrom
  /\ result = Time(PairFrom)

\* the step just taken was a pass of approach mode on a spline pair, with
\* its answers recorded in full
RecordedApproachPass ==
  /\ observed.kind = "full"
  /\ observed.before.pc = "detect_approach"
  /\ observed.before.a_it <= Len(observed.before.range_a)
  /\ observed.before.b_it <= Len(observed.before.range_b)

\* ... and reached the approach times: it did not return at line 819
ReachedApproachTimes ==
  /\ RecordedApproachPass
  /\ ~ (observed.ans.initially_approaching /\ ~ ExtendedForm)

\* the first approach time at which the static overlap does not hold, as an
\* index of the approach times; one past the last if it holds at all
FirstApart ==
  LET apart == {k \in DOMAIN observed.ans.times :
                  observed.ans.overlaps[k] # "overlap"}
  IN  IF apart = {} THEN Len(observed.ans.times) + 1
      ELSE CHOOSE k \in apart : \A j \in apart : k <= j

\* the number of conflicts found before the approach times of the pass
BeforeApproachTimes ==
  observed.before.found
    + (IF observed.ans.initially_approaching THEN 1 ELSE 0)

\* trajectory spliced is trajectory whole from waypoint it on, led by a
\* waypoint at t
SplicedAt(spliced, t, whole, it) ==
  /\ spliced # <<>>
  /\ spliced[1] = t
  /\ \A i \in 1 .. Len(spliced) - 1 : spliced[i] < spliced[i + 1]
  /\ {spliced[i] : i \in 2 .. Len(spliced)}
       = {whole[i] : i \in it .. Len(whole)} \ {t}

\* what C31 says of the pass just made
ApproachTimesInOrder ==
  LET times == observed.ans.times
      stop == FirstApart
      base == BeforeApproachTimes
  IN  /\ \A k \in 1 .. Len(times) - 1 : times[k] < times[k + 1]
      \* a conflict at each time at which the overlap holds, in order, up to
      \* the first at which it does not, and none at a later time
      /\ ExtendedForm =>
           /\ Len(detected) = base + stop - 1
           /\ \A k \in 1 .. stop - 1 :
                detected[base + k] =
                  [a |-> observed.before.a_it, b |-> observed.before.b_it,
                   time |-> times[k]]
      /\ (~ ExtendedForm /\ stop > 1) =>
           /\ pc = "done"
           /\ result = Time(times[1])
           /\ Len(detected) = base + 1
      \* otherwise invasion mode on the spliced trajectories
      /\ (stop <= Len(times) /\ (ExtendedForm \/ stop = 1)) =>
           /\ pc = "detect_invasion"
           /\ SplicedAt(range_a, times[stop],
                        observed.before.range_a, observed.before.a_it)
           /\ SplicedAt(range_b, times[stop],
                        observed.before.range_b, observed.before.b_it)
           /\ a_it = 2
           /\ b_it = 2

\* C31: the approach times of a pair are processed in increasing order; at
\* each time t, if the static overlap still holds a conflict is recorded at
\* t, otherwise both trajectories are spliced at t (a first waypoint at t,
\* then the remaining waypoints) and the call continues in invasion mode on
\* the spliced remainders; later approach times of the pair are then not
\* examined.
C31_ApproachTimes == ReachedApproachTimes => ApproachTimesInOrder

\* the same, for profiles that both hold a footprint
C31_ApproachTimesWithFootprints ==
  (/\ ReachedApproachTimes
   /\ input_profile_a.footprint # NoShape
   /\ input_profile_b.footprint # NoShape) => ApproachTimesInOrder

\* a pass that recorded a conflict at an approach time and spliced at the
\* next, with a later approach time at which the overlap holds left alone
C31_SplicedAfterConflict ==
  /\ ReachedApproachTimes
  /\ input_profile_a.footprint # NoShape
  /\ input_profile_b.footprint # NoShape
  /\ ExtendedForm
  /\ Len(observed.ans.times) = 3
  /\ FirstApart = 2
  /\ observed.ans.overlaps[3] = "overlap"
  /\ pc = "detect_invasion"

\* the pass just made went through every approach time of its pair and
\* got to the test at the pair's finish time (line 857)
ProcessedPair ==
  /\ ReachedApproachTimes
  /\ FirstApart > Len(observed.ans.times)
  /\ ~ ExtendedForm => observed.ans.times = <<>>

\* the iterators are past the spline or splines that finish first, on the
\* trajectories of the pass
AdvancedPastFinished ==
  /\ range_a = observed.before.range_a
  /\ range_b = observed.before.range_b
  /\ <<a_it, b_it>> =
       <<observed.before.a_it
           + (IF range_a[observed.before.a_it] = PairTo THEN 1 ELSE 0),
         observed.before.b_it
           + (IF range_b[observed.before.b_it] = PairTo THEN 1 ELSE 0)>>

\* what C32 says of the pass just made
ModeAfterPair ==
  /\ AdvancedPastFinished
  /\ pc = IF observed.ans.still_close = "overlap"
          THEN "detect_approach" ELSE "detect_invasion"

\* C32: after a spline pair is processed in approach mode, if the static
\* overlap no longer holds at the pair's finish time t1 the call continues
\* in invasion mode from the next pair, the iterators being past the
\* finished spline or splines; if it still holds, approach mode continues
\* with the next pair.
C32_AfterPair == ProcessedPair => ModeAfterPair

\* the same, for profiles that both hold a footprint
C32_AfterPairWithFootprints ==
  (/\ ProcessedPair
   /\ input_profile_a.footprint # NoShape
   /\ input_profile_b.footprint # NoShape) => ModeAfterPair

\* approach mode handed a later pair over to invasion mode, one iterator
\* only having moved
C32_HandedOverAfterPair ==
  /\ ProcessedPair
  /\ input_profile_a.footprint # NoShape
  /\ input_profile_b.footprint # NoShape
  /\ observed.ans.still_close = "clear"
  /\ pc = "detect_invasion"
  /\ a_it = observed.before.a_it + 1
  /\ b_it = observed.before.b_it
  /\ b_it <= Len(range_b)
  /\ a_it <= Len(range_a)

\* approach mode went on to a next pair
C32_WentOnApproaching ==
  /\ ProcessedPair
  /\ observed.ans.still_close = "overlap"
  /\ pc = "detect_approach"
  /\ a_it <= Len(range_a)
  /\ b_it <= Len(range_b)

\* the call has returned, having found the vehicles overlapping at the
\* aligned start
ReturnedAfterCloseStart ==
  /\ observed.kind = "full"
  /\ observed.close = "overlap"
  /\ pc = "done"

\* what C33 says of the call
ExemptUnlessApproaching ==
  /\ (~ observed.approached /\ ~ observed.invaded) => result = None
  /\ observed.conflicted => result = Time(detected[1].time)

\* C33: if the vehicles overlap at the aligned start and on every examined
\* spline pair they are neither initially approaching nor have an approach
\* time, and no invasion occurs after they have separated, between returns
\* none; if instead they approach while still overlapping, the result is the
\* first such approach instant.
C33_CloseStartExemption == ReturnedAfterCloseStart => ExemptUnlessApproaching

\* the same, for the simple form on profiles that both hold a footprint
C33_SimpleFormWithFootprints ==
  (/\ ReturnedAfterCloseStart
   /\ ~ ExtendedForm
   /\ input_profile_a.footprint # NoShape
   /\ input_profile_b.footprint # NoShape) => ExemptUnlessApproaching

\* the vehicles separated over two pairs of approach mode and went through
\* a pair of invasion mode: none is returned
C33_Exempted ==
  /\ ReturnedAfterCloseStart
  /\ ~ ExtendedForm
  /\ ~ observed.approached
  /\ ~ observed.invaded
  /\ observed.before.pc = "invasion_loop"
  /\ Len(trajectory_a) + Len(trajectory_b) >= 5
  /\ result = None

\* the vehicles approached at an approach time of a later pair, still
\* overlapping: that time is returned
C33_ReturnedApproachInstant ==
  /\ ReturnedAfterCloseStart
  /\ ~ ExtendedForm
  /\ observed.conflicted
  /\ ~ observed.ans.initially_approaching
  /\ observed.before.a_it + observed.before.b_it > 4
  /\ result = Time(observed.ans.times[1])

\* the extended form and the simple form, called on the same arguments,
\* have both returned
BothFormsReturned ==
  /\ BothReturned
  /\ mirror.relation = "form"
  /\ ValidTrajectories

\* C34: for the same inputs the simple form between and the extended form
\* return the same value (both none, or the same conflict time), in invasion
\* mode, in approach mode and across a hand-off from approach to invasion.
C34_SameValue == BothFormsReturned => mirror.call.result = result

\* the same, for calls that found the vehicles apart at the aligned start
\* and so were in invasion mode throughout
C34_SameValueInInvasionMode ==
  (BothFormsReturned /\ observed.close = "clear") =>
    mirror.call.result = result

\* the two forms returned the same time in invasion mode, from a later pair
C34_SameTimeInInvasionMode ==
  /\ BothFormsReturned
  /\ observed.close = "clear"
  /\ result.kind = "some"
  /\ mirror.call.result = result
  /\ result.time > CommonFrom
  /\ Len(detected) >= 2

\* the places of the schedules: a waypoint and a position in its schedule
Places(scheds) ==
  {p \in Waypoints \X (1 .. MaxReservations) : p[2] <= Len(scheds[p[1]])}

\* the live reservations, as reserve returns them
Live(scheds) ==
  {[id |-> scheds[p[1]][p[2]].id, waypoint |-> p[1],
    start |-> scheds[p[1]][p[2]].start,
    finish |-> scheds[p[1]][p[2]].finish] : p \in Places(scheds)}

\* what C35 says of the call that made the step
FrameOfCall ==
  LET before == Live(schedules)
      after == Live(schedules')
  IN  CASE last'.op = "reserve" /\ last'.outcome = None ->
             /\ after = before
             /\ Places(schedules') = Places(schedules)
        [] last'.op = "reserve" /\ last'.outcome # None ->
             LET r == last'.outcome.reservation
             IN  /\ r \notin before
                 /\ after = before \cup {r}
                 /\ Cardinality(Places(schedules'))
                      = Cardinality(Places(schedules)) + 1
                 /\ HoldersOf(schedules', r.id) = {r.waypoint}
        [] last'.op = "cancel" /\ last'.outcome = Done ->
             /\ \E r \in before :
                  /\ r.id = last'.id
                  /\ after = before \ {r}
             /\ Cardinality(Places(schedules'))
                  = Cardinality(Places(schedules)) - 1
        [] OTHER -> TRUE

\* C35: a reserve that returns none leaves the set of live reservations
\* unchanged; a successful reserve adds exactly one reservation on exactly
\* one resource and changes no existing reservation; a successful cancel(id)
\* removes exactly the reservation with that id and leaves every other
\* reservation, on any resource, unchanged.
C35_Frame == [][FrameOfCall]_vars

\* a reservation has been cancelled that was followed, in the schedule of
\* its waypoint, by another one, which is still there
C35_Witness ==
  /\ last.op = "cancel"
  /\ last.outcome = Done
  /\ \E i \in 1 .. Len(schedules[last.cancelled.waypoint]) :
       schedules[last.cancelled.waypoint][i].start >= last.cancelled.start

=============================================================================
